---- MODULE Spec2Model ----
(***************************************************************************)
(* Pool-state store (LiquidityMonitor), liquidity-aware arbitrage search   *)
(* and ranking (EnhancedArbitrageDetector) and the oracle gate             *)
(* (PythArbValidator) of solana-streamer.                                  *)
(*                                                                         *)
(* Number representation.  TLC integers are 32 bits wide, so               *)
(*   - token amounts (u64 in the source) are carried in units of one base  *)
(*     transaction fee, AmountUnit = base_gas_per_tx lamports; the         *)
(*     formulas are the source's, run on amounts in that denomination;     *)
(*   - PoolState.liquidity (u128) is carried in units of                   *)
(*     LiquidityDivisor = 1_000_000, the divisor the CLMM/DLMM estimate    *)
(*     applies to it;                                                      *)
(*   - f64 values are exact rationals [n, d] or fixed-point integers:      *)
(*     per-leg probabilities in 1/100, the combined probability in         *)
(*     1/10000, ev_score in 1/100 (floored).  f64 rounding is not          *)
(*     modelled.                                                           *)
(***************************************************************************)
EXTENDS Integers, Sequences, FiniteSets, TLC

(***************************************************************************)
(* Arithmetic helpers                                                      *)
(***************************************************************************)
Min(a, b) == IF a <= b THEN a ELSE b

Max(a, b) == IF a >= b THEN a ELSE b

Abs(a) == IF a >= 0 THEN a ELSE -a

\* <<q, r>> with a * b = q * c + r and 0 <= r < c, computed bit by bit over b so
\* that no intermediate exceeds 2 * c + a (a * b itself may not fit 32 bits).
RECURSIVE MulDivQR(_, _, _)
MulDivQR(a, b, c) ==
    IF b = 0 THEN <<0, 0>>
    ELSE LET h == MulDivQR(a, b \div 2, c)
             t == 2 * h[2] + (b % 2) * a
         IN  <<2 * h[1] + (t \div c), t % c>>

\* floor(a * b / c) for a, b >= 0 and c > 0
MulDiv(a, b, c) == IF a >= b THEN MulDivQR(a, b, c)[1] ELSE MulDivQR(b, a, c)[1]

\* ceil(a * b / c) for a, b >= 0 and c > 0
MulDivCeil(a, b, c) ==
    LET qr == IF a >= b THEN MulDivQR(a, b, c) ELSE MulDivQR(b, a, c)
    IN  IF qr[2] = 0 THEN qr[1] ELSE qr[1] + 1

\* exact rationals n / d with d > 0
Rat(n, d) == [n |-> n, d |-> d]

\* comparison of a / b with c / d for a, c >= 0 and b, d > 0, by continued fractions
\* (no product is formed, so nothing overflows): -1, 0 or 1
RECURSIVE FracCmp(_, _, _, _)
FracCmp(a, b, c, d) ==
    IF a \div b # c \div d THEN (IF a \div b < c \div d THEN -1 ELSE 1)
    ELSE IF a % b = 0 /\ c % d = 0 THEN 0
    ELSE IF a % b = 0 THEN -1
    ELSE IF c % d = 0 THEN 1
    ELSE FracCmp(d, c % d, b, a % b)

RatCmp(x, y) ==
    IF x.n < 0 /\ y.n < 0 THEN FracCmp(0 - y.n, y.d, 0 - x.n, x.d)
    ELSE IF x.n < 0 THEN -1
    ELSE IF y.n < 0 THEN 1
    ELSE FracCmp(x.n, x.d, y.n, y.d)

RatLess(x, y) == RatCmp(x, y) < 0

RatLeq(x, y) == RatCmp(x, y) <= 0

RatEq(x, y) == RatCmp(x, y) = 0

(***************************************************************************)
(* Pubkeys.  A key is a natural number; to_string is its base-58 text      *)
(* (digit sequence, most significant first), compared as Rust compares     *)
(* Strings: lexicographically.                                             *)
(***************************************************************************)
Base58 == 58

RECURSIVE to_string(_)
to_string(k) ==
    IF k < Base58 THEN <<k>> ELSE Append(to_string(k \div Base58), k % Base58)

RECURSIVE StrLess(_, _)
StrLess(s, t) ==
    IF t = <<>> THEN FALSE
    ELSE IF s = <<>> THEN TRUE
    ELSE IF Head(s) # Head(t) THEN Head(s) < Head(t)
    ELSE StrLess(Tail(s), Tail(t))

\* liquidity_monitor.rs TokenPairKey::new and enhanced_arbitrage.rs TokenPair::new
TokenPairKey(token_a, token_b) ==
    IF StrLess(to_string(token_a), to_string(token_b))
    THEN <<token_a, token_b>>
    ELSE <<token_b, token_a>>

SOL == 20

USDC == 70

USDT == 9

Tokens == {SOL, USDC, USDT}

(***************************************************************************)
(* Program constants                                                       *)
(***************************************************************************)
base_gas_per_tx == 10000

jito_bundle_tip == 1000000

AmountUnit == base_gas_per_tx

LiquidityDivisor == 1000000

max_pool_age_secs == 60

max_opportunities == 100

step_count == 20

\* min_ev_score = 10.0, in 1/100
min_ev_score == 1000

\* the hard-wired floor of is_executable, combined_execution_prob > 0.3, in 1/10000
MinimumChance == 3000

BpsDenominator == 10000

U16Max == 65535

NoneVal == -1

(***************************************************************************)
(* PoolState numeric model (liquidity_monitor.rs)                          *)
(***************************************************************************)
DexTypes == {"RaydiumAmmV4", "RaydiumClmm", "RaydiumCpmm", "OrcaWhirlpool", "MeteoraDlmm"}

calculate_cpmm_impact(pool, input_amount, reserve_in, reserve_out) ==
    IF reserve_in = 0 \/ reserve_out = 0 THEN <<0, 10000>>
    ELSE LET fee_multiplier == BpsDenominator - pool.total_fee_bps
             input_with_fee == (input_amount * fee_multiplier) \div BpsDenominator
             numerator == reserve_out * input_with_fee
             denominator == reserve_in + input_with_fee
             output_amount == numerator \div denominator
             \* |spot - execution| / spot with spot = reserve_out / reserve_in and
             \* execution = output / input; 0/0 is NaN, and NaN as u16 is 0
             impact_bps ==
                 IF input_amount = 0 THEN 0
                 ELSE MulDiv(Abs(reserve_out * input_amount - output_amount * reserve_in),
                             BpsDenominator, input_amount * reserve_out)
         IN  <<output_amount, Min(impact_bps, U16Max)>>

\* impact_pct = (input / (liquidity / 1_000_000)).min(1.0) reaches 1.0 (also for a
\* zero divisor: inf.min(1.0) and NaN.min(1.0) are 1.0)
ImpactIsFull(pool, input_amount) ==
    pool.liquidity = 0 \/ input_amount * AmountUnit >= pool.liquidity

calculate_clmm_impact(pool, input_amount) ==
    IF ImpactIsFull(pool, input_amount)
    THEN <<input_amount \div 2, 10000>>
    ELSE <<input_amount - MulDivCeil(input_amount * input_amount, AmountUnit, 2 * pool.liquidity),
           MulDiv(input_amount, AmountUnit * BpsDenominator, pool.liquidity)>>

calculate_dlmm_impact(pool, input_amount) ==
    LET full == ImpactIsFull(pool, input_amount)
        impact_bps == IF full THEN 10000
                      ELSE MulDiv(input_amount, AmountUnit * BpsDenominator, pool.liquidity)
        bin_step == IF pool.bin_step = NoneVal THEN 1 ELSE pool.bin_step
        adjusted_impact == (impact_bps * (100 + bin_step)) \div 100
        output == IF full THEN (7 * input_amount) \div 10
                  ELSE input_amount
                       - MulDivCeil(3 * input_amount * input_amount, AmountUnit, 10 * pool.liquidity)
    IN  <<output, Min(adjusted_impact, U16Max)>>

\* <<output_amount, price_impact_bps>>
calculate_price_impact(pool, input_amount, is_a_to_b) ==
    LET reserve_in == IF is_a_to_b THEN pool.reserve_a ELSE pool.reserve_b
        reserve_out == IF is_a_to_b THEN pool.reserve_b ELSE pool.reserve_a
    IN  IF pool.dex_type \in {"RaydiumClmm", "OrcaWhirlpool"}
        THEN calculate_clmm_impact(pool, input_amount)
        ELSE IF pool.dex_type = "MeteoraDlmm"
        THEN calculate_dlmm_impact(pool, input_amount)
        ELSE calculate_cpmm_impact(pool, input_amount, reserve_in, reserve_out)

ImpactScore(impact_bps) ==
    IF impact_bps <= 50 THEN 10
    ELSE IF impact_bps <= 100 THEN 9
    ELSE IF impact_bps <= 200 THEN 7
    ELSE IF impact_bps <= 500 THEN 5
    ELSE IF impact_bps <= 1000 THEN 3
    ELSE 1

LiquidityScore(pool) ==
    IF pool.liquidity > 100000000 \div LiquidityDivisor THEN 10
    ELSE IF pool.liquidity > 10000000 \div LiquidityDivisor THEN 8
    ELSE IF pool.liquidity > 1000000 \div LiquidityDivisor THEN 6
    ELSE 3

RecencyScore(pool, clock) ==
    LET age_secs == clock - pool.last_trade_timestamp
    IN  IF pool.last_trade_timestamp = NoneVal THEN 6
        ELSE IF age_secs <= 60 THEN 10
        ELSE IF age_secs <= 300 THEN 9
        ELSE IF age_secs <= 3600 THEN 7
        ELSE 5

\* probability in 1/100: 0.5 * impact_score + 0.3 * liquidity_score + 0.2 * recency_score,
\* each score in 1/10
execution_probability(pool, trade_size, is_a_to_b, clock) ==
    5 * ImpactScore(calculate_price_impact(pool, trade_size, is_a_to_b)[2])
    + 3 * LiquidityScore(pool) + 2 * RecencyScore(pool, clock)

(***************************************************************************)
(* Trade evaluation (enhanced_arbitrage.rs)                                *)
(***************************************************************************)
\* (base_gas_per_tx * 2) + jito_bundle_tip, in amount units
estimated_gas == ((base_gas_per_tx * 2) + jito_bundle_tip) \div AmountUnit

\* (expected_value / 10_000.0) * 10.0 + net_profit_pct * combined_prob, in 1/100,
\* for net_profit in amount units and combined_prob in 1/10000:
\*   combined_prob * net_profit * (trade_size + 10) / (1000 * trade_size)
EvScore(net_profit, combined_prob, trade_size) ==
    IF net_profit >= 0
    THEN MulDiv(combined_prob * net_profit, trade_size + 10, 10 * trade_size)
    ELSE 0 - MulDivCeil(combined_prob * (0 - net_profit), trade_size + 10, 10 * trade_size)

ConfidenceOf(combined_prob, net_profit_pct) ==
    IF combined_prob > 8000 /\ RatLess(Rat(1, 1), net_profit_pct) THEN "VeryHigh"
    ELSE IF combined_prob > 6000 /\ RatLess(Rat(1, 2), net_profit_pct) THEN "High"
    ELSE IF combined_prob > 4000 /\ RatLess(Rat(3, 10), net_profit_pct) THEN "Medium"
    ELSE IF combined_prob > 2000 THEN "Low"
    ELSE "VeryLow"

\* a net profit that subtracts the fees and the gas of the two swaps but not the tip
NetProfitWithoutTip(gross_profit, total_fees, gas) ==
    gross_profit - total_fees - ((base_gas_per_tx * 2) \div AmountUnit)

\* gross_profit - total_fees as i64 - estimated_gas as i64
NetProfit(gross_profit, total_fees, gas) == gross_profit - total_fees - gas

\* the two swaps and their probabilities, given the outcome `buy` of the first swap:
\* buy and sell are <<output amount, impact bps>>
SwapLegs(buy_pool, sell_pool, trade_size, is_a_to_b, clock, buy) ==
    [buy |-> buy,
     sell |-> calculate_price_impact(sell_pool, buy[1], ~is_a_to_b),
     buy_prob |-> execution_probability(buy_pool, trade_size, is_a_to_b, clock),
     sell_prob |-> execution_probability(sell_pool, buy[1], ~is_a_to_b, clock)]

\* gross profit, fees, net profit and combined probability of the two legs
ProfitOf(buy_pool, sell_pool, trade_size, legs) ==
    LET intermediate_amount == legs.buy[1]
        final_amount == legs.sell[1]
        gross_profit == final_amount - trade_size
        \* ((trade_size * fee_bps) / 10000.0 + (intermediate * fee_bps) / 10000.0) as u64
        total_fees == (trade_size * buy_pool.total_fee_bps
                       + intermediate_amount * sell_pool.total_fee_bps) \div BpsDenominator
    IN  [gross_profit |-> gross_profit,
         total_fees |-> total_fees,
         net_profit |-> NetProfit(gross_profit, total_fees, estimated_gas),
         combined_prob |-> legs.buy_prob * legs.sell_prob]

\* the EnhancedArbitrageOpportunity literal
OpportunityOf(token_pair, buy_pool, sell_pool, trade_size, clock, legs, profit) ==
    [token_pair |-> token_pair,
     buy_pool |-> buy_pool.pool_address,
     sell_pool |-> sell_pool.pool_address,
     buy_dex |-> buy_pool.dex_type,
     sell_dex |-> sell_pool.dex_type,
     buy_price |-> Rat(legs.buy[1], trade_size),
     sell_price |-> Rat(legs.sell[1], legs.buy[1]),
     gross_profit_pct |-> Rat(100 * profit.gross_profit, trade_size),
     optimal_trade_size |-> trade_size,
     expected_input |-> trade_size,
     expected_output |-> legs.sell[1],
     expected_profit |-> Max(profit.gross_profit, 0),
     total_fees |-> profit.total_fees,
     estimated_gas_lamports |-> estimated_gas,
     net_profit |-> profit.net_profit,
     net_profit_pct |-> Rat(100 * profit.net_profit, trade_size),
     buy_pool_impact_bps |-> legs.buy[2],
     sell_pool_impact_bps |-> legs.sell[2],
     buy_execution_prob |-> legs.buy_prob,
     sell_execution_prob |-> legs.sell_prob,
     combined_execution_prob |-> profit.combined_prob,
     expected_value |-> profit.net_profit * profit.combined_prob,
     ev_score |-> EvScore(profit.net_profit, profit.combined_prob, trade_size),
     timestamp |-> clock,
     confidence_level |-> ConfidenceOf(profit.combined_prob,
                                       Rat(100 * profit.net_profit, trade_size))]

\* the part of evaluate_trade_size after the two swaps
EvaluateLegs(token_pair, buy_pool, sell_pool, trade_size, clock, legs) ==
    IF legs.buy[1] = 0 THEN <<>>
    ELSE IF legs.sell[1] = 0 THEN <<>>
    ELSE <<OpportunityOf(token_pair, buy_pool, sell_pool, trade_size, clock, legs,
                         ProfitOf(buy_pool, sell_pool, trade_size, legs))>>

\* Option<EnhancedArbitrageOpportunity> as a sequence of length 0 or 1
evaluate_trade_size(token_pair, buy_pool, sell_pool, trade_size, is_a_to_b, clock) ==
    EvaluateLegs(token_pair, buy_pool, sell_pool, trade_size, clock,
                 SwapLegs(buy_pool, sell_pool, trade_size, is_a_to_b, clock,
                          calculate_price_impact(buy_pool, trade_size, is_a_to_b)))

\* (max_trade_size - min_trade_size) / step_count on u64
StepSize(pair_config) ==
    (pair_config.max_trade_size - pair_config.min_trade_size) \div step_count

\* min_trade_size + (i * step_size)
TradeSizeAt(pair_config, i) == pair_config.min_trade_size + (i * StepSize(pair_config))

\* the candidates of the grid loop of calculate_arbitrage: <<i, evaluate_trade_size(..)>>
\* for the step_count + 1 sizes min_trade_size + i * step_size
GridCandidates(pair_config, buy_pool, sell_pool, clock) ==
    { <<i, evaluate_trade_size(TokenPairKey(pair_config.token_a, pair_config.token_b),
                               buy_pool, sell_pool, TradeSizeAt(pair_config, i), TRUE,
                               clock)>> :
      i \in 0..step_count }

\* the candidates that can replace best_opportunity: Some(opp) with expected_value > 0.0
GoodCandidates(cands) == {c \in cands : c[2] # <<>> /\ c[2][1].expected_value > 0}

\* the loop keeps a candidate only when its expected_value is strictly above the best
\* so far (0.0 at the start): the result is the first candidate of maximal positive
\* expected_value
BestCandidate(good) ==
    IF good = {} THEN <<>>
    ELSE (CHOOSE c \in good :
            \A d \in good :
                \/ d[2][1].expected_value < c[2][1].expected_value
                \/ d[2][1].expected_value = c[2][1].expected_value /\ d[1] >= c[1])[2]

calculate_arbitrage(pair_config, buy_pool, sell_pool, clock) ==
    BestCandidate(GoodCandidates(GridCandidates(pair_config, buy_pool, sell_pool, clock)))

is_executable(opp, min_ev, min_net_pct) ==
    /\ opp.ev_score >= min_ev
    /\ RatLeq(min_net_pct, opp.net_profit_pct)
    /\ opp.combined_execution_prob > MinimumChance

(***************************************************************************)
(* State                                                                   *)
(***************************************************************************)
VARIABLES
    pools,              \* LiquidityMonitor.pools: pool address -> PoolState
    token_pair_pools,   \* LiquidityMonitor.token_pair_pools: pair key -> Vec of addresses
    opportunities,      \* EnhancedArbitrageDetector.opportunities
    config,             \* min_net_profit_pct, min_execution_prob as passed to new()
    now,                \* the wall clock read by current_timestamp() / SystemTime::now()
    n_updates,          \* number of update_pool calls so far (bounded below)
    observed,           \* what a read query returned, while the read is the latest operation
    mutex,              \* owner of the Mutex around the detector, or "free"
    pc,                 \* position of each task of the streamer
    new_opportunities,  \* the local vector of a scan in progress
    returned,           \* the vector the last completed scan returned
    dropped,            \* some completed rescan left out an opportunity ranked before it
    price_cache,        \* PythPriceMonitor.price_cache: price account -> PythPriceData
    oracle_config,      \* PythArbValidator.config
    verdict,            \* the ValidationResult of the last validate_opportunity call
    clmm_pool_states,   \* OpportunityDetector.clmm_pool_states: pool -> CLMM PoolState
    ammv4_pool_states,  \* OpportunityDetector.ammv4_pool_states: pool -> AmmInfo
    price_feed,         \* OpportunityDetector.price_feed: TokenPair -> Vec<PoolPrice>
    flash_config,       \* OpportunityDetector thresholds as passed to new()
    detected,           \* what the last analyze_*_swap_event call returned
    held,               \* the mutexes the event callback holds, in acquisition order
    stats,              \* EventStats and last_report of the integrated callback
    orch,               \* the reconnecting client: its position, counters and health flags
    simulation_mode,    \* FlashLoanTxBuilder.simulation_mode
    chain,              \* the accounts of the lending program: token balances, Reserve data
    state_cache,        \* PoolStateCache of the WebSocket client: pool -> state and slot
    pool_pubkeys,       \* WsStreamConfig.pool_pubkeys of the WebSocket client
    subscription        \* the account of the accountSubscribe request, once start() sent it

store_vars == <<pools, token_pair_pools>>

task_vars == <<mutex, pc, new_opportunities, returned, dropped>>

oracle_vars == <<price_cache, oracle_config, verdict>>

flash_vars == <<clmm_pool_states, ammv4_pool_states, price_feed, flash_config, detected>>

ws_vars == <<state_cache, pool_pubkeys, subscription>>

client_vars == <<held, stats, orch, simulation_mode, chain, ws_vars>>

vars == <<pools, token_pair_pools, opportunities, config, now, n_updates, observed,
          mutex, pc, new_opportunities, returned, dropped,
          price_cache, oracle_config, verdict,
          clmm_pool_states, ammv4_pool_states, price_feed, flash_config, detected,
          held, stats, orch, simulation_mode, chain, ws_vars>>

(***************************************************************************)
(* Bounds and inputs                                                       *)
(***************************************************************************)
MaxUpdates == 2

MaxTicks == 3

TickSecs == 30

StartTime == 1000

\* EnhancedArbitrageDetector::new(pairs, 0.3, 0.5), as the detector's unit test builds
\* it: min_net_profit_pct in percent, min_execution_prob in 1/10000
Configs == { [min_net_profit_pct |-> Rat(3, 10), min_execution_prob |-> 5000] }

monitored_pairs ==
    << [name |-> "SOL/USDC", token_a |-> SOL, token_b |-> USDC,
        min_trade_size |-> 110, max_trade_size |-> 310],
       [name |-> "SOL/USDT", token_a |-> SOL, token_b |-> USDT,
        min_trade_size |-> 110, max_trade_size |-> 310] >>

\* sqrt_price_x64 is a Q-format square-root price; the model keeps QBits fractional
\* bits where the source keeps 64
QBits == 4

QOne == 2 ^ QBits

Shape(addr, dex, ta, tb, ra, rb, liq, sqrtp, fee) ==
    [pool_address |-> addr, dex_type |-> dex, token_a |-> ta, token_b |-> tb,
     reserve_a |-> ra, reserve_b |-> rb, liquidity |-> liq, sqrt_price_x64 |-> sqrtp,
     tick_current |-> NoneVal, active_bin_id |-> NoneVal, bin_step |-> NoneVal,
     total_fee_bps |-> fee, last_trade_timestamp |-> NoneVal]

AmmPool == Shape("amm", "RaydiumAmmV4", SOL, USDC, 100000, 400000, 1, NoneVal, 25)

CpmmPool == Shape("cpmm", "RaydiumCpmm", SOL, USDC, 600000, 400000, 1, NoneVal, 25)

ClmmPool == Shape("clmm", "RaydiumClmm", SOL, USDC, 0, 0, 500000000, 2 * QOne, 25)

DlmmPool == Shape("dlmm", "MeteoraDlmm", USDT, SOL, 0, 0, 50000000, NoneVal, 20)

\* the pool states the transport can deliver (last_updated is added on delivery): the
\* four pools, and the states of pools "amm" and "clmm" as the streamer's callback
\* builds them (reserves 0; no sqrt price and no liquidity)
PoolShapes ==
    { AmmPool, CpmmPool, ClmmPool, DlmmPool,
      Shape("amm", "RaydiumCpmm", SOL, USDC, 0, 0, 200, NoneVal, 25),
      Shape("clmm", "RaydiumClmm", SOL, USDC, 0, 0, 0, NoneVal, 25) }

WithStamp(shape, stamp) ==
    [f \in DOMAIN shape \cup {"last_updated"} |->
        IF f = "last_updated" THEN stamp ELSE shape[f]]

Stamps(clock) == {clock}

PoolInputs(clock) == {WithStamp(sh, st) : sh \in PoolShapes, st \in Stamps(clock)}

(***************************************************************************)
(* LiquidityMonitor (liquidity_monitor.rs)                                 *)
(***************************************************************************)
\* pools.insert(pool_address, pool_state)
PoolsAfterInsert(pool_map, pool_state) ==
    (pool_state.pool_address :> pool_state) @@ pool_map

\* token_pair_pools.entry(pair_key).or_insert_with(Vec::new).push(pool_address)
IndexAfterPush(index, pool_state) ==
    LET pair_key == TokenPairKey(pool_state.token_a, pool_state.token_b)
    IN  IF pair_key \in DOMAIN index
        THEN [index EXCEPT ![pair_key] = Append(@, pool_state.pool_address)]
        ELSE (pair_key :> <<pool_state.pool_address>>) @@ index

update_pool(pool_state) ==
    /\ pools' = PoolsAfterInsert(pools, pool_state)
    /\ token_pair_pools' = IndexAfterPush(token_pair_pools, pool_state)

\* current_timestamp() - pool.last_updated <= max_pool_age_secs on u64: when the stamp is
\* later than the clock the subtraction overflows; a build without overflow checks wraps
\* to 2^64 - (last_updated - clock), which is far above max_pool_age_secs
IsFresh(pool, clock) ==
    IF clock < pool.last_updated THEN FALSE
    ELSE clock - pool.last_updated <= max_pool_age_secs

\* the u64 subtraction overflows for some pool the filter visits
AgeOverflows(pool_map, index, token_a, token_b, clock) ==
    /\ TokenPairKey(token_a, token_b) \in DOMAIN index
    /\ \E i \in 1..Len(index[TokenPairKey(token_a, token_b)]) :
          /\ index[TokenPairKey(token_a, token_b)][i] \in DOMAIN pool_map
          /\ clock < pool_map[index[TokenPairKey(token_a, token_b)][i]].last_updated

\* Vec<&PoolState>, in index order
get_pools_for_pair(pool_map, index, token_a, token_b, clock) ==
    LET pair_key == TokenPairKey(token_a, token_b)
        Kept(addr) == addr \in DOMAIN pool_map /\ IsFresh(pool_map[addr], clock)
        addrs == IF pair_key \in DOMAIN index THEN SelectSeq(index[pair_key], Kept) ELSE <<>>
    IN  [i \in 1..Len(addrs) |-> pool_map[addrs[i]]]

PoolsAfterClean(pool_map, clock) ==
    [a \in {x \in DOMAIN pool_map : IsFresh(pool_map[x], clock)} |-> pool_map[a]]

\* a clean that retains the known addresses but keeps emptied entries
IndexAfterCleanKeepingEmpty(index, kept_pools) ==
    LET Known(addr) == addr \in DOMAIN kept_pools
    IN  [k \in DOMAIN index |-> SelectSeq(index[k], Known)]

IndexAfterClean(index, kept_pools) ==
    LET Known(addr) == addr \in DOMAIN kept_pools
        filtered == [k \in DOMAIN index |-> SelectSeq(index[k], Known)]
    IN  [k \in {x \in DOMAIN index : filtered[x] # <<>>} |-> filtered[k]]

clean_stale_pools ==
    /\ pools' = PoolsAfterClean(pools, now)
    /\ token_pair_pools' = IndexAfterClean(token_pair_pools, pools')

(***************************************************************************)
(* EnhancedArbitrageDetector (enhanced_arbitrage.rs)                       *)
(***************************************************************************)
\* the pushes of one ordered (buy, sell) pool pair: the best candidate, if
\* is_executable admits it
PushIfExecutable(opp, cfg) ==
    IF opp # <<>> /\ is_executable(opp[1], min_ev_score, cfg.min_net_profit_pct)
    THEN opp ELSE <<>>

Admitted(pair_config, buy_pool, sell_pool, clock, cfg) ==
    PushIfExecutable(calculate_arbitrage(pair_config, buy_pool, sell_pool, clock), cfg)

\* number of pool pairs the nested loops of find_opportunities_for_pair visit before
\* the outer loop reaches pool i of n
PairsBefore(n, i) == (i - 1) * n - ((i * (i - 1)) \div 2)

\* the k-th pool pair <<i, j>>, i < j, in the order the nested loops visit them
PairAt(n, k) ==
    LET i == CHOOSE r \in 1..(n - 1) : PairsBefore(n, r) < k /\ k <= PairsBefore(n, r + 1)
    IN  <<i, i + (k - PairsBefore(n, i))>>

\* calculate_arbitrage is a pure function of the two pool states: the table holds its
\* admitted result once per ordered pair of distinct-DEX states among pool_seq
PushTable(pair_config, pool_seq, clock, cfg) ==
    { <<bs[1], bs[2], Admitted(pair_config, bs[1], bs[2], clock, cfg)>> :
      bs \in {x \in {pool_seq[i] : i \in 1..Len(pool_seq)}
                    \X {pool_seq[i] : i \in 1..Len(pool_seq)} :
              x[1].dex_type # x[2].dex_type} }

\* the two pushes each visited pool pair may make, in loop order: slot 2k - 1 is
\* (pool1 buy, pool2 sell) of the k-th pair, slot 2k is (pool2 buy, pool1 sell)
PairSlots(pool_seq, table) ==
    LET Pushed(buy_pool, sell_pool) ==
            (CHOOSE e \in table : e[1] = buy_pool /\ e[2] = sell_pool)[3]
    IN  [s \in 1..(Len(pool_seq) * (Len(pool_seq) - 1)) |->
            LET ij == PairAt(Len(pool_seq), (s + 1) \div 2)
            IN  IF pool_seq[ij[1]].dex_type = pool_seq[ij[2]].dex_type THEN <<>>
                ELSE IF s % 2 = 1 THEN Pushed(pool_seq[ij[1]], pool_seq[ij[2]])
                ELSE Pushed(pool_seq[ij[2]], pool_seq[ij[1]])]

IsPushed(slot) == slot # <<>>

Unwrap(pushed) == [k \in 1..Len(pushed) |-> pushed[k][1]]

\* the loops of find_opportunities_for_pair over the pools found
ComparePools(pair_config, pool_seq, clock, cfg) ==
    IF Len(pool_seq) < 2 THEN <<>>
    ELSE Unwrap(SelectSeq(PairSlots(pool_seq, PushTable(pair_config, pool_seq, clock, cfg)),
                          IsPushed))

find_opportunities_for_pair(pair_config, pool_map, index, clock, cfg) ==
    ComparePools(pair_config,
                 get_pools_for_pair(pool_map, index, pair_config.token_a,
                                    pair_config.token_b, clock),
                 clock, cfg)

\* new_opportunities after the loop over monitored_pairs
RECURSIVE CollectPairs(_, _, _, _, _)
CollectPairs(k, pool_map, index, clock, cfg) ==
    IF k > Len(monitored_pairs) THEN <<>>
    ELSE find_opportunities_for_pair(monitored_pairs[k], pool_map, index, clock, cfg)
         \o CollectPairs(k + 1, pool_map, index, clock, cfg)

\* new_opportunities.sort_by(|a, b| b.ev_score.partial_cmp(&a.ev_score).unwrap()):
\* descending by ev_score, stable (equal scores keep their order)
SortByEvScore(seq) ==
    LET n == Len(seq)
        Before(i) == {j \in 1..n : \/ seq[j].ev_score > seq[i].ev_score
                                   \/ seq[j].ev_score = seq[i].ev_score /\ j < i}
        placed == {<<Cardinality(Before(i)) + 1, i>> : i \in 1..n}
    IN  [p \in 1..n |-> seq[(CHOOSE e \in placed : e[1] = p)[2]]]

\* a truncation that keeps one entry too many
TruncateOffByOne(seq, n) == SubSeq(seq, 1, Min(n + 1, Len(seq)))

\* Vec::truncate
Truncate(seq, n) == SubSeq(seq, 1, Min(n, Len(seq)))

ScanResult(pool_map, index, clock, cfg) ==
    Truncate(SortByEvScore(CollectPairs(1, pool_map, index, clock, cfg)), max_opportunities)

\* a store that extends the collection instead of replacing it
StoreByAppending(old, scanned) == old \o scanned

\* self.opportunities = new_opportunities.clone()
StoreOpportunities(old, scanned) == scanned

scan_arbitrage_opportunities ==
    opportunities' = StoreOpportunities(opportunities,
                                        ScanResult(pools, token_pair_pools, now, config))

\* self.opportunities.iter().take(n).collect()
get_top_opportunities(opps, n) == SubSeq(opps, 1, Min(n, Len(opps)))

(***************************************************************************)
(* Oracle prices (pyth_price_monitor.rs) and the validator                 *)
(* (pyth_arb_validator.rs).  f64 values are exact rationals in lowest      *)
(* terms.                                                                  *)
(***************************************************************************)
RECURSIVE Gcd(_, _)
Gcd(a, b) == IF b = 0 THEN a ELSE Gcd(b, a % b)

\* n / d in lowest terms with a positive denominator (d # 0)
RatNorm(n, d) ==
    Rat((IF d < 0 THEN 0 - n ELSE n) \div Gcd(Abs(n), Abs(d)), Abs(d) \div Gcd(Abs(n), Abs(d)))

RECURSIVE Pow10(_)
Pow10(k) == IF k = 0 THEN 1 ELSE 10 * Pow10(k - 1)

\* OracleValidationConfig: percentages as rationals, staleness in seconds
OracleValidationConfig(deviation_pct, confidence_pct, staleness_secs, both_pools) ==
    [max_price_deviation_pct |-> deviation_pct,
     max_oracle_confidence_pct |-> confidence_pct,
     max_staleness_secs |-> staleness_secs,
     require_both_pools |-> both_pools]

conservative == OracleValidationConfig(Rat(2, 1), Rat(1, 2), 30, TRUE)

balanced == OracleValidationConfig(Rat(5, 1), Rat(1, 1), 60, TRUE)

\* a permissive preset whose staleness limit lies below the balanced one
AggressiveShortStaleness == OracleValidationConfig(Rat(10, 1), Rat(2, 1), 45, FALSE)

aggressive == OracleValidationConfig(Rat(10, 1), Rat(2, 1), 120, FALSE)

OraclePresets == {conservative, balanced, aggressive}

\* presets::all_common_feeds(): price account -> PythPriceFeedConfig
price_feeds ==
    [account \in {"sol_usd", "usdc_usd", "usdt_usd"} |->
        IF account = "sol_usd" THEN [symbol |-> "SOL/USD", base_token |-> SOL, quote_token |-> USDC]
        ELSE IF account = "usdc_usd"
        THEN [symbol |-> "USDC/USD", base_token |-> USDC, quote_token |-> USDT]
        ELSE [symbol |-> "USDT/USD", base_token |-> USDT, quote_token |-> USDC]]

\* elapsed.as_secs() < max_age_secs; a last_updated later than the clock is Err(_)
is_fresh(data, max_age_secs, clock) ==
    IF clock < data.last_updated THEN FALSE
    ELSE clock - data.last_updated < max_age_secs

confidence_pct(data) ==
    IF data.price = 0 THEN Rat(100, 1) ELSE RatNorm(100 * data.confidence, data.price)

\* price * 10^expo, for expo <= 0
normalized_price(data) == RatNorm(data.price, Pow10(0 - data.expo))

\* the feeds whose configuration has exactly this (base, quote) and whose price is cached
MatchingFeeds(cache, base_token, quote_token) ==
    {account \in DOMAIN price_feeds :
        /\ price_feeds[account].base_token = base_token
        /\ price_feeds[account].quote_token = quote_token
        /\ account \in DOMAIN cache}

\* Option<PythPriceData> as a sequence of length 0 or 1
get_price(cache, base_token, quote_token) ==
    IF MatchingFeeds(cache, base_token, quote_token) = {} THEN <<>>
    ELSE <<cache[CHOOSE account \in MatchingFeeds(cache, base_token, quote_token) : TRUE]>>

\* (buy_price + sell_price) / 2.0
AveragePrice(x, y) == RatNorm(x.n * y.d + y.n * x.d, 2 * x.d * y.d)

\* ((pool_price - oracle) / oracle).abs() * 100.0 > max_pct, with the IEEE results of a
\* zero oracle price: x / 0 is infinite (greater than any max) and 0 / 0 is NaN (every
\* comparison with NaN is false)
DeviationExceeds(pool_price, oracle, max_pct) ==
    IF oracle.n = 0 THEN pool_price.n # 0
    ELSE RatLess(max_pct,
                 RatNorm(100 * Abs(pool_price.n * oracle.d - oracle.n * pool_price.d),
                         pool_price.d * Abs(oracle.n)))

\* the value of deviation_pct; a zero denominator stands for the non-finite results
DeviationPct(pool_price, oracle) ==
    IF oracle.n = 0 THEN [n |-> pool_price.n, d |-> 0]
    ELSE RatNorm(100 * Abs(pool_price.n * oracle.d - oracle.n * pool_price.d),
                 pool_price.d * Abs(oracle.n))

\* ValidationResult::with_metrics: every Option field is Some, written as a 1-tuple
with_metrics(is_valid, reason, oracle_price, pool_price, deviation, confidence) ==
    [is_valid |-> is_valid, reason |-> reason, oracle_price |-> <<oracle_price>>,
     pool_price |-> <<pool_price>>, deviation_pct |-> <<deviation>>,
     confidence_pct |-> <<confidence>>]

\* ValidationResult::invalid: every Option field is None, written as the empty tuple
invalid(reason) ==
    [is_valid |-> FALSE, reason |-> reason, oracle_price |-> << >>,
     pool_price |-> << >>, deviation_pct |-> << >>, confidence_pct |-> << >>]

\* the per-leg checks made when require_both_pools is set, then the acceptance
ValidateLegs(opportunity, oracle_data, cfg) ==
    IF cfg.require_both_pools
       /\ DeviationExceeds(opportunity.buy_price, normalized_price(oracle_data),
                           cfg.max_price_deviation_pct)
    THEN with_metrics(FALSE, "Buy pool price deviates too much",
                          normalized_price(oracle_data), opportunity.buy_price,
                          DeviationPct(opportunity.buy_price, normalized_price(oracle_data)),
                          confidence_pct(oracle_data))
    ELSE IF cfg.require_both_pools
            /\ DeviationExceeds(opportunity.sell_price, normalized_price(oracle_data),
                                cfg.max_price_deviation_pct)
    THEN with_metrics(FALSE, "Sell pool price deviates too much",
                          normalized_price(oracle_data), opportunity.sell_price,
                          DeviationPct(opportunity.sell_price, normalized_price(oracle_data)),
                          confidence_pct(oracle_data))
    ELSE with_metrics(TRUE, "Oracle validation passed",
                          normalized_price(oracle_data),
                          AveragePrice(opportunity.buy_price, opportunity.sell_price),
                          DeviationPct(AveragePrice(opportunity.buy_price, opportunity.sell_price),
                                       normalized_price(oracle_data)),
                          confidence_pct(oracle_data))

\* a validator that checks the confidence interval before the staleness
ValidateConfidenceFirst(opportunity, oracle_data, cfg, clock) ==
    IF RatLess(cfg.max_oracle_confidence_pct, confidence_pct(oracle_data))
    THEN with_metrics(FALSE, "Oracle confidence interval too high",
                          normalized_price(oracle_data), Rat(0, 1), Rat(0, 1),
                          confidence_pct(oracle_data))
    ELSE IF ~is_fresh(oracle_data, cfg.max_staleness_secs, clock)
    THEN invalid("Oracle price is stale")
    ELSE IF DeviationExceeds(AveragePrice(opportunity.buy_price, opportunity.sell_price),
                             normalized_price(oracle_data), cfg.max_price_deviation_pct)
    THEN with_metrics(FALSE, "Pool price deviates too much from oracle",
                          normalized_price(oracle_data),
                          AveragePrice(opportunity.buy_price, opportunity.sell_price),
                          DeviationPct(AveragePrice(opportunity.buy_price, opportunity.sell_price),
                                       normalized_price(oracle_data)),
                          confidence_pct(oracle_data))
    ELSE ValidateLegs(opportunity, oracle_data, cfg)

\* validate_opportunity once the oracle record is at hand
ValidateAgainst(opportunity, oracle_data, cfg, clock) ==
    IF ~is_fresh(oracle_data, cfg.max_staleness_secs, clock)
    THEN invalid("Oracle price is stale")
    ELSE IF RatLess(cfg.max_oracle_confidence_pct, confidence_pct(oracle_data))
    THEN with_metrics(FALSE, "Oracle confidence interval too high",
                          normalized_price(oracle_data), Rat(0, 1), Rat(0, 1),
                          confidence_pct(oracle_data))
    ELSE IF DeviationExceeds(AveragePrice(opportunity.buy_price, opportunity.sell_price),
                             normalized_price(oracle_data), cfg.max_price_deviation_pct)
    THEN with_metrics(FALSE, "Pool price deviates too much from oracle",
                          normalized_price(oracle_data),
                          AveragePrice(opportunity.buy_price, opportunity.sell_price),
                          DeviationPct(AveragePrice(opportunity.buy_price, opportunity.sell_price),
                                       normalized_price(oracle_data)),
                          confidence_pct(oracle_data))
    ELSE ValidateLegs(opportunity, oracle_data, cfg)

validate_opportunity(opportunity, cache, cfg, clock) ==
    IF get_price(cache, opportunity.token_pair[1], opportunity.token_pair[2]) = <<>>
    THEN invalid("No Pyth oracle price available for this token pair")
    ELSE ValidateAgainst(opportunity,
                         get_price(cache, opportunity.token_pair[1],
                                   opportunity.token_pair[2])[1],
                         cfg, clock)

\* the push of validate_opportunities as a mutant: the pair goes to the front
PushFront(results, opp, validation) == <<<<opp, validation>>>> \o results

\* results.push((opp, validation))
PushResult(results, opp, validation) == Append(results, <<opp, validation>>)

\* the loop of validate_opportunities over the remaining inputs
RECURSIVE ValidateEach(_, _, _, _, _)
ValidateEach(results, remaining, cache, cfg, clock) ==
    IF remaining = << >> THEN results
    ELSE ValidateEach(PushResult(results, Head(remaining),
                                 validate_opportunity(Head(remaining), cache, cfg, clock)),
                      Tail(remaining), cache, cfg, clock)

\* Vec<(EnhancedArbitrageOpportunity, ValidationResult)>
validate_opportunities(batch, cache, cfg, clock) ==
    ValidateEach(<< >>, batch, cache, cfg, clock)

\* update_price_feed: the reply becomes the cached PythPriceData, stamped with the clock
CacheAfterUpdate(cache, account, reply, clock) ==
    (account :> [symbol |-> price_feeds[account].symbol, price |-> reply.price,
                 confidence |-> reply.confidence, expo |-> reply.expo,
                 last_updated |-> clock]) @@ cache

(***************************************************************************)
(* OpportunityDetector (flash_loan/opportunity_detector.rs).  Lamport      *)
(* amounts and liquidities are counted in units of FlashUnit lamports.     *)
(***************************************************************************)
FlashUnit == 100000

\* n SOL (n * 1_000_000_000 lamports) in units of FlashUnit
Sol(n) == n * 10000

\* OpportunityDetector::new
FlashConfig(min_profit, max_loan, min_liquidity, min_combined) ==
    [min_profit_threshold |-> min_profit, max_loan_amount |-> max_loan,
     min_liquidity_threshold |-> min_liquidity, min_combined_liquidity |-> min_combined]

\* 0.001 SOL minimum profit, 100 SOL maximum loan, 10 SOL per pool, 50 SOL combined
new_high_liquidity == FlashConfig(10, Sol(100), Sol(10), Sol(50))

PriceLifetimeSecs == 30

\* TokenPair::new of the flash-loan detector: Pubkey order (byte order), smaller first
FlashTokenPair(token0, token1) ==
    IF token0 < token1 THEN <<token0, token1>> ELSE <<token1, token0>>

\* Option<f64>: (sqrt_price_x64 / 2^64)^2
calculate_clmm_price_of(pool) ==
    IF pool.sqrt_price_x64 = 0 THEN << >>
    ELSE <<RatNorm(pool.sqrt_price_x64 * pool.sqrt_price_x64, QOne * QOne)>>

\* the terms of the average as a mutant: pc_in / coin_out is kept for a zero coin_out
AmmV4TermsUnchecked(pool) ==
    (IF pool.swap_coin_in > 0 /\ pool.swap_pc_out > 0
     THEN <<Rat(pool.swap_pc_out, pool.swap_coin_in)>> ELSE << >>)
    \o (IF pool.swap_pc_in > 0
        THEN <<Rat(pool.swap_pc_in, pool.swap_coin_out)>> ELSE << >>)

\* the finite positive terms of the average: pc_out / coin_in and pc_in / coin_out
AmmV4PriceTerms(pool) ==
    (IF pool.swap_coin_in > 0 /\ pool.swap_pc_out > 0
     THEN <<Rat(pool.swap_pc_out, pool.swap_coin_in)>> ELSE << >>)
    \o (IF pool.swap_pc_in > 0 /\ pool.swap_coin_out > 0
        THEN <<Rat(pool.swap_pc_in, pool.swap_coin_out)>> ELSE << >>)

\* Option<f64>
calculate_ammv4_price(pool) ==
    IF pool.swap_coin_in = 0 /\ pool.swap_pc_in = 0 THEN << >>
    ELSE IF Len(AmmV4PriceTerms(pool)) = 0 THEN << >>
    ELSE IF Len(AmmV4PriceTerms(pool)) = 1
    THEN <<RatNorm(AmmV4PriceTerms(pool)[1].n, AmmV4PriceTerms(pool)[1].d)>>
    ELSE <<AveragePrice(AmmV4PriceTerms(pool)[1], AmmV4PriceTerms(pool)[2])>>

estimate_ammv4_liquidity(pool) ==
    Max(Max(Max(Max(pool.swap_coin_in + pool.swap_coin_out,
                    pool.swap_pc_in + pool.swap_pc_out),
                pool.lp_amount * 10),
            Min(pool.swap_coin_in + pool.swap_coin_out,
                pool.swap_pc_in + pool.swap_pc_out) * 10) \div 2,
        10)

PoolPrice(pool, protocol, price, liquidity, token0, token1, clock) ==
    [pool |-> pool, protocol |-> protocol, price |-> price, liquidity |-> liquidity,
     token0 |-> token0, token1 |-> token1, timestamp |-> clock]

\* the Vec after "update existing entry or add new one"
PricesAfterUpsert(prices, pool_price) ==
    IF \E i \in 1..Len(prices) : prices[i].pool = pool_price.pool
    THEN [i \in 1..Len(prices) |->
            IF i = CHOOSE k \in 1..Len(prices) :
                      /\ prices[k].pool = pool_price.pool
                      /\ \A j \in 1..(k - 1) : prices[j].pool # pool_price.pool
            THEN pool_price ELSE prices[i]]
    ELSE Append(prices, pool_price)

\* prices.retain(|p| now - p.timestamp < 30)
RetainRecent(prices, clock) ==
    LET Recent(p) == clock - p.timestamp < PriceLifetimeSecs
    IN  SelectSeq(prices, Recent)

\* OpportunityDetector::update_price_feed
FeedAfterUpdate(feed, pair, pool_price, clock) ==
    (pair :> RetainRecent(PricesAfterUpsert(IF pair \in DOMAIN feed THEN feed[pair]
                                            ELSE << >>, pool_price), clock)) @@ feed

update_clmm_pool_state(event) ==
    IF event.sqrt_price_x64 = 0 \/ event.liquidity = 0
    THEN UNCHANGED <<clmm_pool_states, price_feed>>
    ELSE /\ clmm_pool_states' = (event.pubkey :> event) @@ clmm_pool_states
         /\ price_feed' =
              IF calculate_clmm_price_of(event) = << >> THEN price_feed
              ELSE FeedAfterUpdate(price_feed,
                                   FlashTokenPair(event.token_mint0, event.token_mint1),
                                   PoolPrice(event.pubkey, "RaydiumClmm",
                                             calculate_clmm_price_of(event)[1],
                                             event.liquidity, event.token_mint0,
                                             event.token_mint1, now),
                                   now)

update_ammv4_pool_state(event) ==
    /\ ammv4_pool_states' = (event.pubkey :> event) @@ ammv4_pool_states
    /\ price_feed' =
         IF calculate_ammv4_price(event) = << >> THEN price_feed
         ELSE FeedAfterUpdate(price_feed, FlashTokenPair(event.coin_mint, event.pc_mint),
                              PoolPrice(event.pubkey, "RaydiumAmmV4",
                                        calculate_ammv4_price(event)[1],
                                        estimate_ammv4_liquidity(event), event.coin_mint,
                                        event.pc_mint, now),
                              now)

\* the first entry of minimal price and the first entry of maximal price
find_price_spread(prices) ==
    <<prices[CHOOSE i \in 1..Len(prices) :
                /\ \A j \in 1..Len(prices) : RatLeq(prices[i].price, prices[j].price)
                /\ \A j \in 1..(i - 1) : RatLess(prices[i].price, prices[j].price)],
      prices[CHOOSE i \in 1..Len(prices) :
                /\ \A j \in 1..Len(prices) : RatLeq(prices[j].price, prices[i].price)
                /\ \A j \in 1..(i - 1) : RatLess(prices[j].price, prices[i].price)]>>

LoanPercentage(min_liquidity) ==
    IF min_liquidity > Sol(100) THEN 15
    ELSE IF min_liquidity > Sol(50) THEN 10
    ELSE IF min_liquidity > Sol(20) THEN 5
    ELSE 2

\* loan.min(self.max_loan_amount).max(100_000)
calculate_optimal_loan_size(buy_pool, sell_pool, cfg) ==
    Max(Min(Min(buy_pool.liquidity, sell_pool.liquidity)
               \div LoanPercentage(Min(buy_pool.liquidity, sell_pool.liquidity)),
            cfg.max_loan_amount),
        1)

LiquidityPoints(min_liquidity) ==
    IF min_liquidity > Sol(100) THEN 30
    ELSE IF min_liquidity > Sol(50) THEN 25
    ELSE IF min_liquidity > Sol(10) THEN 15
    ELSE IF min_liquidity > Sol(5) THEN 10
    ELSE IF min_liquidity > Sol(1) THEN 5
    ELSE 0

CombinedPoints(combined_liquidity) ==
    IF combined_liquidity > Sol(200) THEN 20
    ELSE IF combined_liquidity > Sol(100) THEN 15
    ELSE IF combined_liquidity > Sol(50) THEN 10
    ELSE 0

\* spread is sell price / buy price, so spread_pct > x is spread > 1 + x
SpreadPoints(spread) ==
    IF RatLess(Rat(105, 100), spread) THEN 20
    ELSE IF RatLess(Rat(103, 100), spread) THEN 15
    ELSE IF RatLess(Rat(101, 100), spread) THEN 10
    ELSE IF RatLess(Rat(1005, 1000), spread) THEN 5
    ELSE 0

FreshnessPoints(max_age) ==
    IF max_age < 2 THEN 10
    ELSE IF max_age < 5 THEN 7
    ELSE IF max_age < 10 THEN 5
    ELSE IF max_age < 30 THEN 2
    ELSE 0

calculate_confidence(buy_pool, sell_pool, spread, clock) ==
    Min(LiquidityPoints(Min(buy_pool.liquidity, sell_pool.liquidity))
        + CombinedPoints(buy_pool.liquidity + sell_pool.liquidity)
        + SpreadPoints(spread)
        + FreshnessPoints(Max(clock - buy_pool.timestamp, clock - sell_pool.timestamp)),
        100)

\* sell price / buy price
PriceMultiplier(buy_pool, sell_pool) ==
    RatNorm(sell_pool.price.n * buy_pool.price.d, buy_pool.price.n * sell_pool.price.d)

\* net_received - repayment per unit of loan, over 160000 * spread.d:
\* (1 - 0.0025)^2 = 159201 / 160000 and 1 + 0.0009 = 160144 / 160000
ProfitNumerator(spread) == 159201 * spread.n - 160144 * spread.d

ArbitrageOpportunity(buy_pool, sell_pool, loan, spread, clock) ==
    [pool_a |-> buy_pool.pool, pool_b |-> sell_pool.pool,
     pool_a_protocol |-> buy_pool.protocol, pool_b_protocol |-> sell_pool.protocol,
     base_token |-> buy_pool.token0, quote_token |-> buy_pool.token1,
     price_a |-> buy_pool.price, price_b |-> sell_pool.price,
     expected_profit |-> MulDiv(loan, ProfitNumerator(spread), 160000 * spread.d),
     loan_amount |-> loan, timestamp |-> clock,
     confidence |-> calculate_confidence(buy_pool, sell_pool, spread, clock)]

\* Option<ArbitrageOpportunity>
calculate_profit(buy_pool, sell_pool, cfg, clock) ==
    IF ~RatLess(buy_pool.price, sell_pool.price) THEN << >>
    ELSE IF RatLess(PriceMultiplier(buy_pool, sell_pool), Rat(101, 100)) THEN << >>
    ELSE IF ProfitNumerator(PriceMultiplier(buy_pool, sell_pool)) <= 0 THEN << >>
    ELSE <<ArbitrageOpportunity(buy_pool, sell_pool,
                                calculate_optimal_loan_size(buy_pool, sell_pool, cfg),
                                PriceMultiplier(buy_pool, sell_pool), clock)>>

\* find_arbitrage_opportunity once the high-liquidity extremes are at hand
ProfitOfSpread(spread_pools, cfg, clock) ==
    IF spread_pools[1].liquidity + spread_pools[2].liquidity < cfg.min_combined_liquidity
    THEN << >>
    ELSE IF ~RatLess(spread_pools[1].price, spread_pools[2].price) THEN << >>
    ELSE IF calculate_profit(spread_pools[1], spread_pools[2], cfg, clock) = << >>
    THEN << >>
    ELSE IF calculate_profit(spread_pools[1], spread_pools[2], cfg, clock)[1].expected_profit
               < cfg.min_profit_threshold
    THEN << >>
    ELSE calculate_profit(spread_pools[1], spread_pools[2], cfg, clock)

HighLiquidity(prices, cfg) ==
    LET Enough(p) == p.liquidity >= cfg.min_liquidity_threshold
    IN  SelectSeq(prices, Enough)

\* Option<ArbitrageOpportunity>
find_arbitrage_opportunity(feed, pair, cfg, clock) ==
    IF pair \notin DOMAIN feed THEN << >>
    ELSE IF Len(feed[pair]) < 2 THEN << >>
    ELSE IF Len(HighLiquidity(feed[pair], cfg)) < 2 THEN << >>
    ELSE ProfitOfSpread(find_price_spread(HighLiquidity(feed[pair], cfg)), cfg, clock)

analyze_clmm_swap_event(pool_state) ==
    IF pool_state \notin DOMAIN clmm_pool_states THEN << >>
    ELSE find_arbitrage_opportunity(price_feed,
                                    FlashTokenPair(clmm_pool_states[pool_state].token_mint0,
                                                   clmm_pool_states[pool_state].token_mint1),
                                    flash_config, now)

analyze_ammv4_swap_event(amm) ==
    IF amm \notin DOMAIN ammv4_pool_states THEN << >>
    ELSE find_arbitrage_opportunity(price_feed,
                                    FlashTokenPair(ammv4_pool_states[amm].coin_mint,
                                                   ammv4_pool_states[amm].pc_mint),
                                    flash_config, now)

(***************************************************************************)
(* The lending program (token-lending-flash-loan): FlashLoan instruction,  *)
(* Reserve fees, and the example receiver program.  u64 is modelled with   *)
(* WordBits bits.  Accounts are named by their role in the integration     *)
(* test; the SPL token program is modelled by its transfer instruction.    *)
(***************************************************************************)
WordBits == 20

WordMax == 2 ^ WordBits - 1

\* Option<u64> of checked_add, checked_sub, checked_mul
checked_add(a, b) == IF a + b > WordMax THEN << >> ELSE <<a + b>>

checked_sub(a, b) == IF a < b THEN << >> ELSE <<a - b>>

checked_mul(a, b) == IF b # 0 /\ a > WordMax \div b THEN << >> ELSE <<a * b>>

TokenAccounts == {"supply", "borrower", "fee_receiver", "host"}

\* the owner field of the token accounts, as initialize_account of the test sets it
TokenAuthority(account) == IF account = "supply" THEN "market_authority" ELSE "payer"

\* AccountInfo.owner
AccountOwner(account) ==
    IF account \in {"reserve", "market"} THEN "lending_program"
    ELSE IF account \in TokenAccounts THEN "token_program"
    ELSE "system_program"

\* Reserve::default(), the data of a reserve account nobody initialized
DefaultReserve ==
    [version |-> 0, lending_market |-> "default", available_amount |-> 0,
     flash_loan_fee_bps |-> 0, protocol_flash_loan_fee_bps |-> 0]

\* the accounts before the reserve is set up: empty token accounts
Genesis == [balances |-> [account \in TokenAccounts |-> 0], reserve |-> DefaultReserve]

\* Pubkey::create_program_address(&[lending_market.key, &[bump_seed]], program_id)
create_program_address(lending_market) ==
    IF lending_market = "market" THEN <<"market_authority">> ELSE <<"no_authority">>

\* spl_token transfer: Option of the balances afterwards
token_transfer(balances, source, destination, authority, amount) ==
    IF source \notin TokenAccounts \/ destination \notin TokenAccounts THEN << >>
    ELSE IF authority # TokenAuthority(source) THEN << >>
    ELSE IF balances[source] < amount THEN << >>
    ELSE IF source = destination THEN <<balances>>
    ELSE IF checked_add(balances[destination], amount) = << >> THEN << >>
    ELSE <<[balances EXCEPT ![source] = @ - amount, ![destination] = @ + amount]>>

\* LendingInstruction::pack: the tag, then the amount
pack(amount) == <<12, amount>>

\* LendingInstruction::unpack: Option of the amount of a FlashLoan
unpack(data) ==
    IF Len(data) = 0 THEN << >>
    ELSE IF data[1] # 12 THEN << >>
    ELSE IF Len(data) < 2 THEN << >>
    ELSE <<data[2]>>

\* instruction::flash_loan with the accounts of the test; host_fee_receiver is an Option
flash_loan(amount, reserve, host_fee_receiver, receiver_program_accounts) ==
    [accounts |-> <<"supply", "borrower", reserve, "market", "market_authority",
                    "receiver_program", "token_program", "fee_receiver">>
                  \o host_fee_receiver \o receiver_program_accounts,
     data |-> pack(amount)]

\* Reserve::calculate_flash_loan_fees: Option<FlashLoanFees>
calculate_flash_loan_fees(reserve, amount) ==
    LET product == checked_mul(amount, reserve.flash_loan_fee_bps)
        total_fee == product[1] \div 10000
        protocol_product == checked_mul(total_fee, reserve.protocol_flash_loan_fee_bps)
        protocol_fee == protocol_product[1] \div 10000
    IN  IF product = << >> THEN << >>
        ELSE IF protocol_product = << >> THEN << >>
        ELSE IF checked_sub(total_fee, protocol_fee) = << >> THEN << >>
        ELSE <<[total_fee |-> total_fee, protocol_fee |-> protocol_fee,
                host_fee |-> total_fee - protocol_fee]>>

\* process_receive_flash_loan of the example receiver: Option of the balances afterwards
process_receive_flash_loan(balances, accounts, amount) ==
    LET fee == checked_mul(amount, 9)
        repay_amount == checked_add(amount, fee[1] \div 10000)
    IN  IF Len(accounts) < 4 THEN << >>
        ELSE IF accounts[1] \notin TokenAccounts THEN << >>
        ELSE IF balances[accounts[1]] < amount THEN << >>
        ELSE IF fee = << >> THEN << >>
        ELSE IF repay_amount = << >> THEN << >>
        ELSE token_transfer(balances, accounts[1], accounts[2], accounts[3],
                            repay_amount[1])

\* what process_flash_loan returned and what it left behind: the token balances, the
\* stored Reserve, the accounts it handed to the receiver, the host fee it sent, and
\* the balance of the source it read after the receiver returned
Outcome(result, balances, reserve, receiver_accounts, host_fee_paid, final_balance) ==
    [result |-> result, balances |-> balances, reserve |-> reserve,
     receiver_accounts |-> receiver_accounts, host_fee_paid |-> host_fee_paid,
     final_balance |-> final_balance]

\* process_flash_loan from "Step 4: Distribute fees" on, as a mutant: no host fee is sent
SettleWithoutHostFee(st, repaid, available, fees, accounts, receiver_accounts) ==
    LET protocol_paid ==
            IF fees.protocol_fee > 0
            THEN token_transfer(repaid, accounts[1], accounts[8], accounts[5],
                                fees.protocol_fee)
            ELSE <<repaid>>
    IN  IF protocol_paid = << >>
        THEN Outcome("TokenError", repaid, st.reserve, receiver_accounts, << >>,
                     <<repaid[accounts[1]]>>)
        ELSE Outcome("Ok", protocol_paid[1],
                     [st.reserve EXCEPT !.available_amount =
                         IF fees.protocol_fee > 0 THEN available - fees.protocol_fee
                         ELSE available],
                     receiver_accounts, << >>, <<repaid[accounts[1]]>>)

\* process_flash_loan from "Step 4: Distribute fees" on; repaid are the balances after
\* the receiver returned, available is available_amount with the repayment added
Settle(st, repaid, available, fees, accounts, receiver_accounts) ==
    LET protocol_paid ==
            IF fees.protocol_fee > 0
            THEN token_transfer(repaid, accounts[1], accounts[8], accounts[5],
                                fees.protocol_fee)
            ELSE <<repaid>>
        after_protocol ==
            IF fees.protocol_fee > 0 THEN checked_sub(available, fees.protocol_fee)
            ELSE <<available>>
        pays_host == Len(accounts) >= 9 /\ fees.host_fee > 0
        host_paid ==
            IF pays_host
            THEN token_transfer(protocol_paid[1], accounts[1], accounts[9], accounts[5],
                                fees.host_fee)
            ELSE protocol_paid
        after_host ==
            IF pays_host THEN checked_sub(after_protocol[1], fees.host_fee)
            ELSE after_protocol
    IN  IF protocol_paid = << >>
        THEN Outcome("TokenError", repaid, st.reserve, receiver_accounts, << >>,
                     <<repaid[accounts[1]]>>)
        ELSE IF after_protocol = << >>
        THEN Outcome("MathOverflow", protocol_paid[1], st.reserve, receiver_accounts, << >>,
                     <<repaid[accounts[1]]>>)
        ELSE IF host_paid = << >>
        THEN Outcome("TokenError", protocol_paid[1], st.reserve, receiver_accounts, << >>,
                     <<repaid[accounts[1]]>>)
        ELSE IF after_host = << >>
        THEN Outcome("MathOverflow", host_paid[1], st.reserve, receiver_accounts,
                     <<[to |-> accounts[9], amount |-> fees.host_fee]>>,
                     <<repaid[accounts[1]]>>)
        ELSE Outcome("Ok", host_paid[1],
                     [st.reserve EXCEPT !.available_amount = after_host[1]],
                     receiver_accounts,
                     IF pays_host THEN <<[to |-> accounts[9], amount |-> fees.host_fee]>>
                     ELSE << >>,
                     <<repaid[accounts[1]]>>)

\* the check of step 3 as a mutant: the fee is not asked for
RepaidWithoutFee(final_balance, initial_balance, total_fee) ==
    final_balance >= initial_balance

\* final_balance < expected_balance is FlashLoanNotRepaid; expected_balance has not
\* overflowed here
Repaid(final_balance, initial_balance, total_fee) ==
    final_balance >= initial_balance + total_fee

\* process_flash_loan from "Step 1: Transfer loan amount" to the repayment check
Lend(st, amount, fees, accounts) ==
    LET initial_balance == st.balances[accounts[1]]
        lent == token_transfer(st.balances, accounts[1], accounts[2], accounts[5], amount)
        receiver_accounts == <<accounts[2]>> \o SubSeq(accounts, 10, Len(accounts))
        returned_balances == process_receive_flash_loan(lent[1], receiver_accounts, amount)
        available == checked_add(st.reserve.available_amount - amount, amount)
        with_fee == checked_add(available[1], fees.total_fee)
    IN  IF lent = << >>
        THEN Outcome("TokenError", st.balances, st.reserve, << >>, << >>,
                     << >>)
        ELSE IF returned_balances = << >>
        THEN Outcome("ReceiverError", lent[1], st.reserve, receiver_accounts, << >>, << >>)
        ELSE IF checked_add(initial_balance, fees.total_fee) = << >>
        THEN Outcome("MathOverflow", returned_balances[1], st.reserve,
                     receiver_accounts, << >>, <<returned_balances[1][accounts[1]]>>)
        ELSE IF ~Repaid(returned_balances[1][accounts[1]], initial_balance,
                        fees.total_fee)
        THEN Outcome("FlashLoanNotRepaid", returned_balances[1], st.reserve,
                     receiver_accounts, << >>, <<returned_balances[1][accounts[1]]>>)
        ELSE IF available = << >> \/ with_fee = << >>
        THEN Outcome("MathOverflow", returned_balances[1], st.reserve,
                     receiver_accounts, << >>, <<returned_balances[1][accounts[1]]>>)
        ELSE Settle(st, returned_balances[1], with_fee[1], fees, accounts,
                    receiver_accounts)

\* Processor::process_flash_loan up to the fee calculation; the reserve account holds
\* st.reserve, any other account passed as reserve is not owned by the program
process_flash_loan(st, amount, accounts) ==
    LET fees == calculate_flash_loan_fees(st.reserve, amount)
    IN  IF amount = 0
        THEN Outcome("InvalidAmount", st.balances, st.reserve, << >>, << >>,
                     << >>)
        ELSE IF Len(accounts) < 8
        THEN Outcome("NotEnoughAccountKeys", st.balances, st.reserve, << >>, << >>,
                     << >>)
        ELSE IF AccountOwner(accounts[3]) # "lending_program"
                  \/ AccountOwner(accounts[4]) # "lending_program"
        THEN Outcome("InvalidAccountOwner", st.balances, st.reserve, << >>, << >>,
                     << >>)
        ELSE IF st.reserve.lending_market # accounts[4]
        THEN Outcome("InvalidReserve", st.balances, st.reserve, << >>, << >>,
                     << >>)
        ELSE IF create_program_address(accounts[4]) # <<accounts[5]>>
        THEN Outcome("InvalidLendingMarket", st.balances, st.reserve, << >>, << >>,
                     << >>)
        ELSE IF st.reserve.available_amount < amount
        THEN Outcome("InsufficientLiquidity", st.balances, st.reserve, << >>, << >>,
                     << >>)
        ELSE IF fees = << >>
        THEN Outcome("InvalidArgument", st.balances, st.reserve, << >>, << >>,
                     << >>)
        ELSE IF checked_add(amount, fees[1].total_fee) = << >>
        THEN Outcome("MathOverflow", st.balances, st.reserve, << >>, << >>,
                     << >>)
        ELSE IF accounts[1] \notin TokenAccounts
        THEN Outcome("InvalidAccountData", st.balances, st.reserve, << >>, << >>,
                     << >>)
        ELSE Lend(st, amount, fees[1], accounts)

\* Processor::process: unpack, then process_flash_loan
process(st, instruction) ==
    IF unpack(instruction.data) = << >>
    THEN Outcome("InvalidInstructionData", st.balances, st.reserve, << >>, << >>, << >>)
    ELSE process_flash_loan(st, unpack(instruction.data)[1], instruction.accounts)

(***************************************************************************)
(* Operations as actions                                                   *)
(***************************************************************************)
Tasks == {"scanner", "callback", "reader"}

\* EventStats::default() and last_report = Instant::now() of create_integrated_callback
EventStatsAt(clock) ==
    [total_events |-> 0, swap_events |-> 0, pool_updates |-> 0, opportunities_found |-> 0,
     last_report |-> clock]

\* the locals of run_arbitrage_detector at its start: is_connected = true,
\* last_event_time = Instant::now(), event_count = 0 (the ArbitrageDetector made on the
\* same lines is part of these locals; its own code is not modelled); the interval of the
\* health monitor ticks at once, the first poll of the shutdown task is set when the
\* subscription stands
RunLocals(clock) ==
    [started |-> clock, is_connected |-> TRUE, last_event_time |-> clock,
     event_count |-> 0, next_health_tick |-> clock, next_poll |-> clock,
     stop_cause |-> "none"]

\* the reconnecting client: where main and run_arbitrage_detector_with_reconnect stand,
\* retry_count of the latter, the number of calls of run_arbitrage_detector that failed
\* in a row, the end of the current sleep, and the locals of the current call
ClientAt(position, retry_count, failed_runs, wake, locals) ==
    [position |-> position, retry_count |-> retry_count, failed_runs |-> failed_runs,
     wake |-> wake, run |-> locals]

\* the state after EnhancedArbitrageDetector::new, PythPriceMonitor::new,
\* OpportunityDetector::new_high_liquidity and the spawn of the tasks; the validator's
\* preset is chosen by InitOracle
InitDetector ==
    /\ pools = << >>
    /\ token_pair_pools = << >>
    /\ opportunities = << >>
    /\ config \in Configs
    /\ now = StartTime
    /\ n_updates = 0
    /\ observed = << >>
    /\ mutex = "free"
    /\ pc = [t \in Tasks |-> "idle"]
    /\ new_opportunities = << >>
    /\ returned = << >>
    /\ dropped = FALSE
    /\ price_cache = << >>
    /\ verdict = << >>
    /\ clmm_pool_states = << >>
    /\ ammv4_pool_states = << >>
    /\ price_feed = << >>
    /\ flash_config = new_high_liquidity
    /\ detected = << >>
    /\ held = << >>
    /\ stats = EventStatsAt(StartTime)
    /\ orch = ClientAt("run", 0, 0, StartTime, RunLocals(StartTime))
    /\ simulation_mode = FALSE
    /\ chain = Genesis
    /\ state_cache = << >>
    /\ pool_pubkeys = << >>
    /\ subscription = << >>

\* PythArbValidator::with_default_config
Init == InitDetector /\ oracle_config = balanced

\* EnhancedArbitrageDetector::update_pool_state -> LiquidityMonitor::update_pool
UpdatePoolWith(pool_state) ==
    /\ n_updates < MaxUpdates
    /\ update_pool(pool_state)
    /\ n_updates' = n_updates + 1
    /\ observed' = << >>
    /\ UNCHANGED <<opportunities, config, now, task_vars, oracle_vars,
                   flash_vars, client_vars>>

UpdatePool == \E pool_state \in PoolInputs(now) : UpdatePoolWith(pool_state)

Scan ==
    /\ scan_arbitrage_opportunities
    /\ observed' = << >>
    /\ UNCHANGED <<store_vars, config, now, n_updates, task_vars, oracle_vars,
                   flash_vars, client_vars>>

CleanStale ==
    /\ clean_stale_pools
    /\ UNCHANGED <<opportunities, config, now, n_updates, observed, task_vars, oracle_vars,
                   flash_vars, client_vars>>

Tick ==
    /\ now < StartTime + MaxTicks * TickSecs
    /\ now' = now + TickSecs
    /\ UNCHANGED <<store_vars, opportunities, config, n_updates, observed, task_vars,
                   oracle_vars,
                   flash_vars, client_vars>>

(***************************************************************************)
(* Spec: one EnhancedArbitrageDetector; pool updates, scans and the clock  *)
(* in any order.  (The detector keeps its LiquidityMonitor private and     *)
(* never calls clean_stale_pools.)                                         *)
(***************************************************************************)
Next == UpdatePool \/ Scan \/ Tick

Spec == Init /\ [][Next]_vars

(***************************************************************************)
(* SpecStore: one LiquidityMonitor used directly                           *)
(***************************************************************************)
NextStore == UpdatePool \/ CleanStale \/ Tick

SpecStore == Init /\ [][NextStore]_vars

(***************************************************************************)
(* SpecSkew: a LiquidityMonitor fed with states stamped by another clock   *)
(* (the block time of the event), which may be behind or ahead of the      *)
(* local clock, and queried for the pools of a pair                        *)
(***************************************************************************)
Skew == 5

\* last_updated: e.metadata.block_time as u64
SkewedStamps(clock) == {clock - Skew, clock, clock + Skew}

UpdateSkewed ==
    /\ n_updates < MaxUpdates
    /\ \E shape \in PoolShapes : \E stamp \in SkewedStamps(now) :
          update_pool(WithStamp(shape, stamp))
    /\ n_updates' = n_updates + 1
    /\ observed' = << >>
    /\ UNCHANGED <<opportunities, config, now, task_vars, oracle_vars,
                   flash_vars, client_vars>>

\* get_pools_for_pair; with overflow checks compiled in, an overflowing subtraction
\* panics, without them it wraps
GetPools ==
    /\ \E i \in 1..Len(monitored_pairs) : \E overflow_checks \in BOOLEAN :
          observed' =
            IF overflow_checks /\ AgeOverflows(pools, token_pair_pools,
                                               monitored_pairs[i].token_a,
                                               monitored_pairs[i].token_b, now)
            THEN [query |-> "get_pools_for_pair", pair |-> i, panicked |-> TRUE,
                  result |-> << >>]
            ELSE [query |-> "get_pools_for_pair", pair |-> i, panicked |-> FALSE,
                  result |-> get_pools_for_pair(pools, token_pair_pools,
                                                monitored_pairs[i].token_a,
                                                monitored_pairs[i].token_b, now)]
    /\ UNCHANGED <<store_vars, opportunities, config, now, n_updates, task_vars, oracle_vars,
                   flash_vars, client_vars>>

NextSkew == UpdateSkewed \/ GetPools \/ Tick

SpecSkew == Init /\ [][NextSkew]_vars

(***************************************************************************)
(* SpecRank: a detector whose transport keeps re-reporting three pools in  *)
(* turn, with scans and the two read queries in between                    *)
(***************************************************************************)
MaxBurst == 18

BurstShapes == <<AmmPool, CpmmPool, ClmmPool>>

TopNs == {3, 150}

UpdateBurst ==
    /\ n_updates < MaxBurst
    /\ update_pool(WithStamp(BurstShapes[(n_updates % Len(BurstShapes)) + 1], now))
    /\ n_updates' = n_updates + 1
    /\ observed' = << >>
    /\ UNCHANGED <<opportunities, config, now, task_vars, oracle_vars,
                   flash_vars, client_vars>>

GetOpportunities ==
    /\ observed' = [query |-> "get_opportunities", n |-> NoneVal, result |-> opportunities]
    /\ UNCHANGED <<store_vars, opportunities, config, now, n_updates, task_vars, oracle_vars,
                   flash_vars, client_vars>>

GetTop ==
    /\ \E n \in TopNs :
          observed' = [query |-> "get_top_opportunities", n |-> n,
                       result |-> get_top_opportunities(opportunities, n)]
    /\ UNCHANGED <<store_vars, opportunities, config, now, n_updates, task_vars, oracle_vars,
                   flash_vars, client_vars>>

NextRank == UpdateBurst \/ Scan \/ GetOpportunities \/ GetTop

SpecRank == Init /\ [][NextRank]_vars

(***************************************************************************)
(* SpecConc: the tasks of the streamer around Arc<Mutex<detector>>: the    *)
(* periodic scan task, the event callback and a reader.  A task blocked in *)
(* lock() stays where it is until the mutex is free.                       *)
(***************************************************************************)
At(task, position) == pc[task] = position

Goto(task, position) == pc' = [pc EXCEPT ![task] = position]

\* enhanced_detector_scan.lock().unwrap()
ScanLock ==
    /\ At("scanner", "idle") /\ mutex = "free"
    /\ mutex' = "scanner" /\ Goto("scanner", "collect")
    /\ UNCHANGED <<store_vars, opportunities, config, now, n_updates, observed,
                   new_opportunities, returned, dropped, oracle_vars,
                   flash_vars, client_vars>>

\* the loop over monitored_pairs
ScanCollect ==
    /\ At("scanner", "collect")
    /\ new_opportunities' = CollectPairs(1, pools, token_pair_pools, now, config)
    /\ Goto("scanner", "sort")
    /\ UNCHANGED <<store_vars, opportunities, config, now, n_updates, observed,
                   mutex, returned, dropped, oracle_vars,
                   flash_vars, client_vars>>

ScanSort ==
    /\ At("scanner", "sort")
    /\ new_opportunities' = SortByEvScore(new_opportunities)
    /\ Goto("scanner", "truncate")
    /\ UNCHANGED <<store_vars, opportunities, config, now, n_updates, observed,
                   mutex, returned, dropped, oracle_vars,
                   flash_vars, client_vars>>

ScanTruncate ==
    /\ At("scanner", "truncate")
    /\ new_opportunities' = Truncate(new_opportunities, max_opportunities)
    /\ Goto("scanner", "store")
    /\ UNCHANGED <<store_vars, opportunities, config, now, n_updates, observed,
                   mutex, returned, dropped, oracle_vars,
                   flash_vars, client_vars>>

ScanStore ==
    /\ At("scanner", "store")
    /\ opportunities' = StoreOpportunities(opportunities, new_opportunities)
    /\ dropped' = (dropped \/ \E i \in 1..Len(opportunities) :
                                 \A j \in 1..Len(new_opportunities) :
                                     new_opportunities[j] # opportunities[i])
    /\ Goto("scanner", "return")
    /\ UNCHANGED <<store_vars, config, now, n_updates, observed, mutex,
                   new_opportunities, returned, oracle_vars,
                   flash_vars, client_vars>>

\* the vector is returned and the guard dropped at the end of the statement
ScanReturn ==
    /\ At("scanner", "return")
    /\ returned' = new_opportunities
    /\ new_opportunities' = << >>
    /\ mutex' = "free" /\ Goto("scanner", "idle")
    /\ UNCHANGED <<store_vars, opportunities, config, now, n_updates, observed,
                   dropped, oracle_vars,
                   flash_vars, client_vars>>

\* enhanced_detector.lock().unwrap() in the callback
CallbackLock ==
    /\ At("callback", "idle") /\ mutex = "free" /\ n_updates < MaxUpdates
    /\ mutex' = "callback" /\ Goto("callback", "update")
    /\ UNCHANGED <<store_vars, opportunities, config, now, n_updates, observed,
                   new_opportunities, returned, dropped, oracle_vars,
                   flash_vars, client_vars>>

\* .update_pool_state(pool_state); the guard is dropped at the end of the statement
CallbackUpdate ==
    /\ At("callback", "update")
    /\ \E pool_state \in PoolInputs(now) : update_pool(pool_state)
    /\ n_updates' = n_updates + 1
    /\ mutex' = "free" /\ Goto("callback", "idle")
    /\ UNCHANGED <<opportunities, config, now, observed, new_opportunities, returned,
                   dropped, oracle_vars,
                   flash_vars, client_vars>>

ReadLock ==
    /\ At("reader", "idle") /\ mutex = "free"
    /\ mutex' = "reader" /\ Goto("reader", "read")
    /\ UNCHANGED <<store_vars, opportunities, config, now, n_updates, observed,
                   new_opportunities, returned, dropped, oracle_vars,
                   flash_vars, client_vars>>

\* get_opportunities() through the guard
Read ==
    /\ At("reader", "read")
    /\ observed' = [query |-> "get_opportunities", n |-> NoneVal, result |-> opportunities]
    /\ Goto("reader", "unlock")
    /\ UNCHANGED <<store_vars, opportunities, config, now, n_updates, mutex,
                   new_opportunities, returned, dropped, oracle_vars,
                   flash_vars, client_vars>>

\* the slice borrowed from the guard ends with it
ReadUnlock ==
    /\ At("reader", "unlock")
    /\ observed' = << >>
    /\ mutex' = "free" /\ Goto("reader", "idle")
    /\ UNCHANGED <<store_vars, opportunities, config, now, n_updates,
                   new_opportunities, returned, dropped, oracle_vars,
                   flash_vars, client_vars>>

NextConc ==
    \/ ScanLock \/ ScanCollect \/ ScanSort \/ ScanTruncate \/ ScanStore \/ ScanReturn
    \/ CallbackLock \/ CallbackUpdate
    \/ ReadLock \/ Read \/ ReadUnlock
    \/ Tick

SpecConc == Init /\ [][NextConc]_vars

(***************************************************************************)
(* SpecOracle: a PythPriceMonitor polled for prices and a PythArbValidator *)
(* with one of the presets, validating candidates as the clock advances    *)
(***************************************************************************)
ShortWait == 5

\* Pyth replies: price and confidence as scaled integers, with their exponent
OracleReply(price, confidence) == [price |-> price, confidence |-> confidence, expo |-> -3]

FeedReplies(account) ==
    IF account = "usdc_usd"
    THEN {OracleReply(1000, 2), OracleReply(1000, 8), OracleReply(1000, 30), OracleReply(0, 2)}
    ELSE {OracleReply(1000, 2)}

\* the fields of an EnhancedArbitrageOpportunity the validator reads
Candidate(token_a, token_b, buy_price, sell_price) ==
    [token_pair |-> TokenPairKey(token_a, token_b),
     buy_price |-> buy_price, sell_price |-> sell_price]

OracleCandidates ==
    { Candidate(USDC, USDT, Rat(120, 100), Rat(120, 100)),
      Candidate(USDC, USDT, Rat(100, 100), Rat(100, 100)),
      Candidate(USDC, USDT, Rat(103, 100), Rat(103, 100)),
      Candidate(USDC, USDT, Rat(108, 100), Rat(94, 100)),
      Candidate(USDC, USDT, Rat(101, 100), Rat(108, 100)),
      Candidate(SOL, USDC, Rat(100, 100), Rat(100, 100)) }

InitOracle == InitDetector /\ oracle_config \in OraclePresets

\* update_price_feed with a reply that is recent enough
OraclePoll ==
    /\ n_updates < MaxUpdates
    /\ \E account \in DOMAIN price_feeds :
          \E reply \in FeedReplies(account) :
              price_cache' = CacheAfterUpdate(price_cache, account, reply, now)
    /\ n_updates' = n_updates + 1
    /\ verdict' = << >>
    /\ observed' = << >>
    /\ UNCHANGED <<store_vars, opportunities, config, now, task_vars, oracle_config, flash_vars,
                   client_vars>>

\* the clock, read ShortWait after every TickSecs boundary as well
OracleTick ==
    /\ now < StartTime + MaxTicks * TickSecs
    /\ now' = now + (IF (now - StartTime) % TickSecs = 0 THEN ShortWait
                     ELSE TickSecs - ShortWait)
    /\ verdict' = << >>
    /\ observed' = << >>
    /\ UNCHANGED <<store_vars, opportunities, config, n_updates, task_vars,
                   price_cache, oracle_config, flash_vars, client_vars>>

ValidateWith(opportunity) ==
    /\ verdict' = validate_opportunity(opportunity, price_cache, oracle_config, now)
    /\ observed' = [query |-> "validate_opportunity", opportunity |-> opportunity]
    /\ UNCHANGED <<store_vars, opportunities, config, now, n_updates, task_vars,
                   price_cache, oracle_config, flash_vars, client_vars>>

Validate == \E opportunity \in OracleCandidates : ValidateWith(opportunity)

NextOracle == OraclePoll \/ OracleTick \/ Validate

SpecOracle == InitOracle /\ [][NextOracle]_vars

(***************************************************************************)
(* SpecBatch: the validator of SpecOracle asked for single candidates and  *)
(* for batches of candidates                                               *)
(***************************************************************************)
MaxBatch == 2

\* an accepted candidate, one that deviates from the oracle and one without a feed
BatchCandidates ==
    { Candidate(USDC, USDT, Rat(100, 100), Rat(100, 100)),
      Candidate(USDC, USDT, Rat(120, 100), Rat(120, 100)),
      Candidate(SOL, USDT, Rat(100, 100), Rat(100, 100)) }

\* the batches of at most MaxBatch candidates, repetitions included
Batches ==
    UNION {[1..n -> BatchCandidates] : n \in 0..MaxBatch}

ValidateBatch ==
    /\ \E batch \in Batches :
          observed' = [query |-> "validate_opportunities", batch |-> batch,
                       result |-> validate_opportunities(batch, price_cache, oracle_config,
                                                         now)]
    /\ verdict' = << >>
    /\ UNCHANGED <<store_vars, opportunities, config, now, n_updates, task_vars,
                   price_cache, oracle_config, flash_vars, client_vars>>

NextBatch == OraclePoll \/ OracleTick \/ Validate \/ ValidateBatch

SpecBatch == Init /\ [][NextBatch]_vars

(***************************************************************************)
(* SpecFlash: an OpportunityDetector fed with pool-state account events    *)
(* and swap events of three pools of one token pair as the clock advances  *)
(***************************************************************************)
ClmmEvent(pubkey, sqrt_price_x64, liquidity) ==
    [pubkey |-> pubkey, token_mint0 |-> SOL, token_mint1 |-> USDC,
     sqrt_price_x64 |-> sqrt_price_x64, liquidity |-> liquidity]

\* prices 1 and (17/16)^2, and the two states update_clmm_pool_state refuses
ClmmEvents ==
    { ClmmEvent("clmm", QOne, Sol(100)),
      ClmmEvent("clmm2", QOne + QOne \div 16, Sol(100)),
      ClmmEvent("clmm2", 0, Sol(100)),
      ClmmEvent("clmm", QOne, 0) }

AmmInfo(pubkey, coin_in, pc_out, pc_in, coin_out, lp_amount) ==
    [pubkey |-> pubkey, coin_mint |-> SOL, pc_mint |-> USDC,
     swap_coin_in |-> coin_in, swap_pc_out |-> pc_out,
     swap_pc_in |-> pc_in, swap_coin_out |-> coin_out, lp_amount |-> lp_amount]

\* price 11/10 with an estimated liquidity of 100 SOL, a pool that never swapped, and
\* one whose pc_in / coin_out is infinite
AmmV4Events ==
    { AmmInfo("amm", 100, 110, 0, 0, Sol(20)),
      AmmInfo("amm", 0, 0, 0, 0, Sol(20)),
      AmmInfo("amm", 100, 110, 50, 0, Sol(20)) }

UpdateClmm ==
    /\ n_updates < MaxUpdates
    /\ \E event \in ClmmEvents : update_clmm_pool_state(event)
    /\ n_updates' = n_updates + 1
    /\ detected' = << >>
    /\ UNCHANGED <<store_vars, opportunities, config, now, observed, task_vars, oracle_vars,
                   ammv4_pool_states, flash_config, client_vars>>

UpdateAmmV4 ==
    /\ n_updates < MaxUpdates
    /\ \E event \in AmmV4Events : update_ammv4_pool_state(event)
    /\ n_updates' = n_updates + 1
    /\ detected' = << >>
    /\ UNCHANGED <<store_vars, opportunities, config, now, observed, task_vars, oracle_vars,
                   clmm_pool_states, flash_config, client_vars>>

AnalyzeClmmSwap ==
    /\ \E event \in ClmmEvents : detected' = analyze_clmm_swap_event(event.pubkey)
    /\ UNCHANGED <<store_vars, opportunities, config, now, n_updates, observed, task_vars,
                   oracle_vars, clmm_pool_states, ammv4_pool_states, price_feed,
                   flash_config, client_vars>>

AnalyzeAmmV4Swap ==
    /\ \E event \in AmmV4Events : detected' = analyze_ammv4_swap_event(event.pubkey)
    /\ UNCHANGED <<store_vars, opportunities, config, now, n_updates, observed, task_vars,
                   oracle_vars, clmm_pool_states, ammv4_pool_states, price_feed,
                   flash_config, client_vars>>

\* the clock, read ShortWait after every TickSecs boundary as well
FlashTick ==
    /\ now < StartTime + MaxTicks * TickSecs
    /\ now' = now + (IF (now - StartTime) % TickSecs = 0 THEN ShortWait
                     ELSE TickSecs - ShortWait)
    /\ detected' = << >>
    /\ UNCHANGED <<store_vars, opportunities, config, n_updates, observed, task_vars,
                   oracle_vars, clmm_pool_states, ammv4_pool_states, price_feed,
                   flash_config, client_vars>>

NextFlash == UpdateClmm \/ UpdateAmmV4 \/ AnalyzeClmmSwap \/ AnalyzeAmmV4Swap \/ FlashTick

SpecFlash == Init /\ [][NextFlash]_vars

(***************************************************************************)
(* SpecLoan: the OpportunityDetector built by OpportunityDetector::new     *)
(* with thresholds of the caller's choice and fed as in SpecFlash.         *)
(***************************************************************************)
\* new_high_liquidity(); new(1_000_000, 100 SOL, 1 SOL, 5 SOL) of the detector's unit
\* test; and a detector whose max_loan_amount (50_000 lamports) and min_profit_threshold
\* (1_000 lamports) lie below one unit of 100_000 lamports
FlashConfigs ==
    { new_high_liquidity,
      FlashConfig(10, Sol(100), Sol(1), Sol(5)),
      FlashConfig(0, 0, Sol(10), Sol(50)) }

\* liquidities around the tiers of calculate_optimal_loan_size
LoanLiquidities == {Sol(20), Sol(50), Sol(100), Sol(200)}

\* OpportunityDetector::new: empty maps and the given thresholds
NewDetector ==
    /\ n_updates = 0
    /\ \E cfg \in FlashConfigs \ {flash_config} : flash_config' = cfg
    /\ clmm_pool_states' = << >>
    /\ ammv4_pool_states' = << >>
    /\ price_feed' = << >>
    /\ detected' = << >>
    /\ UNCHANGED <<store_vars, opportunities, config, now, n_updates, observed, task_vars,
                   oracle_vars, client_vars>>

\* calculate_optimal_loan_size(&buy_pool, &sell_pool), as the detector's unit test calls it
LoanSize ==
    /\ observed = << >>
    /\ \E buy_liquidity \in LoanLiquidities, sell_liquidity \in LoanLiquidities :
          LET buy_pool == PoolPrice("clmm", "RaydiumClmm", Rat(1, 1), buy_liquidity,
                                    SOL, USDC, now)
              sell_pool == PoolPrice("amm", "RaydiumAmmV4", Rat(102, 100), sell_liquidity,
                                     SOL, USDC, now)
          IN  observed' = [query |-> "calculate_optimal_loan_size",
                           buy_pool |-> buy_pool, sell_pool |-> sell_pool,
                           result |-> calculate_optimal_loan_size(buy_pool, sell_pool,
                                                                  flash_config)]
    /\ UNCHANGED <<store_vars, opportunities, config, now, n_updates, task_vars,
                   oracle_vars, flash_vars, client_vars>>

NextLoan ==
    \/ NewDetector
    \/ UpdateClmm
    \/ UpdateAmmV4
    \/ AnalyzeClmmSwap
    \/ AnalyzeAmmV4Swap
    \/ FlashTick

SpecLoan == Init /\ [][NextLoan]_vars

\* SpecSizing: the loan sizing of a detector that has seen no event yet
NextSizing == NewDetector \/ LoanSize \/ FlashTick

SpecSizing == Init /\ [][NextSizing]_vars

(***************************************************************************)
(* SpecBuilder: a FlashLoanTxBuilder next to an OpportunityDetector fed    *)
(* with CLMM events; the opportunity handed to execute_flash_loan is the   *)
(* one the detector returned last.  The RPC node answers either way.       *)
(***************************************************************************)
\* the steps of execute_flash_loan as a mutant: simulation_mode is not looked at
execute_without_mode_check(mode, opportunity, blockhash_ok, send_ok) ==
    [loan_amount |-> opportunity.loan_amount, simulated |-> FALSE,
     built |-> TRUE, signed |-> blockhash_ok, submitted |-> blockhash_ok,
     result |-> IF blockhash_ok /\ send_ok THEN "Ok" ELSE "Err"]

\* what execute_flash_loan did and returned: in simulation mode it simulates and returns
\* Err; otherwise it builds the instruction, asks for the latest blockhash (Err ends the
\* call), signs, and hands the transaction to send_and_confirm_transaction
execute_flash_loan(mode, opportunity, blockhash_ok, send_ok) ==
    IF mode
    THEN [loan_amount |-> opportunity.loan_amount, simulated |-> TRUE,
          built |-> FALSE, signed |-> FALSE, submitted |-> FALSE, result |-> "Err"]
    ELSE [loan_amount |-> opportunity.loan_amount, simulated |-> FALSE,
          built |-> TRUE, signed |-> blockhash_ok, submitted |-> blockhash_ok,
          result |-> IF blockhash_ok /\ send_ok THEN "Ok" ELSE "Err"]

\* FlashLoanTxBuilder::new
NewBuilder ==
    /\ simulation_mode' = FALSE
    /\ observed' = << >>
    /\ UNCHANGED <<store_vars, opportunities, config, now, n_updates, task_vars,
                   oracle_vars, flash_vars, held, stats, orch,
                   chain, ws_vars>>

\* FlashLoanTxBuilder::new_simulation_mode
NewSimulationMode ==
    /\ simulation_mode' = TRUE
    /\ observed' = << >>
    /\ UNCHANGED <<store_vars, opportunities, config, now, n_updates, task_vars,
                   oracle_vars, flash_vars, held, stats, orch,
                   chain, ws_vars>>

\* FlashLoanTxBuilder::set_simulation_mode(enabled)
SetSimulationMode ==
    /\ \E enabled \in BOOLEAN : simulation_mode' = enabled
    /\ UNCHANGED <<store_vars, opportunities, config, now, n_updates, observed, task_vars,
                   oracle_vars, flash_vars, held, stats, orch,
                   chain, ws_vars>>

\* FlashLoanTxBuilder::execute_flash_loan(&opportunity)
ExecuteFlashLoan ==
    /\ detected # << >>
    /\ \E blockhash_ok \in BOOLEAN, send_ok \in BOOLEAN :
          observed' = [query |-> "execute_flash_loan", mode |-> simulation_mode,
                       outcome |-> execute_flash_loan(simulation_mode, detected[1],
                                                      blockhash_ok, send_ok)]
    /\ UNCHANGED <<store_vars, opportunities, config, now, n_updates, task_vars,
                   oracle_vars, flash_vars, client_vars>>

NextBuilder ==
    \/ NewBuilder
    \/ NewSimulationMode
    \/ SetSimulationMode
    \/ ExecuteFlashLoan
    \/ UpdateClmm
    \/ AnalyzeClmmSwap
    \/ FlashTick

SpecBuilder == Init /\ [][NextBuilder]_vars

(***************************************************************************)
(* SpecLending: the reserve is set up as in the integration test, then     *)
(* FlashLoan instructions are processed, each in a transaction of its own. *)
(* The runtime keeps the account changes of an instruction only when it    *)
(* returns Ok.                                                             *)
(***************************************************************************)
LoanAmount == 10000

BorrowerFunds == 100

\* the liquidity minted to the supply: an ordinary amount, and one near u64::MAX
SupplyChoices == {10 * LoanAmount, WordMax - 10}

\* flash_loan_fee_bps and protocol_flash_loan_fee_bps of the reserve
FeeChoices == {<<9, 5000>>, <<30, 5000>>, <<9, 10000>>}

\* the accounts the caller adds for the example receiver: source liquidity, authority
\* and token program; and the list of the integration test, which starts with the
\* borrower's account
ReceiverAccountLists ==
    { <<"supply", "payer", "token_program">>,
      <<"borrower", "supply", "payer", "token_program">> }

\* the setup of the integration test: mint_to the supply, the borrower's own funds, and
\* a Reserve of the lending market
SetUpReserve ==
    /\ chain = Genesis
    /\ \E supply \in SupplyChoices, fee \in FeeChoices :
          chain' = [balances |-> [Genesis.balances EXCEPT !["supply"] = supply,
                                                          !["borrower"] = BorrowerFunds],
                    reserve |-> [version |-> 1, lending_market |-> "market",
                                 available_amount |-> supply,
                                 flash_loan_fee_bps |-> fee[1],
                                 protocol_flash_loan_fee_bps |-> fee[2]]]
    /\ observed' = << >>
    /\ UNCHANGED <<store_vars, opportunities, config, now, n_updates, task_vars,
                   oracle_vars, flash_vars, held, stats, orch, simulation_mode,
                   ws_vars>>

\* one transaction with one FlashLoan instruction built by instruction::flash_loan
FlashLoan ==
    /\ \E amount \in {0, LoanAmount}, reserve \in {"reserve", "borrower"},
          host_fee_receiver \in {<< >>, <<"host">>},
          receiver_program_accounts \in ReceiverAccountLists :
          LET instruction == flash_loan(amount, reserve, host_fee_receiver,
                                        receiver_program_accounts)
              outcome == process(chain, instruction)
          IN  /\ observed' = [query |-> "flash_loan", amount |-> amount,
                              host_fee_receiver |-> host_fee_receiver,
                              receiver_program_accounts |-> receiver_program_accounts,
                              before |-> chain, outcome |-> outcome]
              /\ chain' = IF outcome.result = "Ok"
                          THEN [balances |-> outcome.balances, reserve |-> outcome.reserve]
                          ELSE chain
    /\ UNCHANGED <<store_vars, opportunities, config, now, n_updates, task_vars,
                   oracle_vars, flash_vars, held, stats, orch, simulation_mode,
                   ws_vars>>

NextLending == SetUpReserve \/ FlashLoan

SpecLending == Init /\ [][NextLending]_vars

(***************************************************************************)
(* SpecCallback: the event callback of the integrated streamer, one lock   *)
(* acquisition per step.  event_counter and last_report belong to the      *)
(* callback, flash_detector and the enhanced detector (mutex) are shared.   *)
(* A guard lives until the end of the closure that took it; a temporary    *)
(* guard is dropped at the end of its statement.                           *)
(***************************************************************************)
MaxEvents == 3

ReportSecs == 30

\* the positions of the swap handlers and of the pool-state handlers, by protocol
SwapAt ==
    [clmm |-> [stats |-> "clmm_swap_stats", detector |-> "clmm_swap_detector",
               found |-> "clmm_swap_found"],
     ammv4 |-> [stats |-> "ammv4_swap_stats", detector |-> "ammv4_swap_detector",
                found |-> "ammv4_swap_found"]]

StateAt ==
    [clmm |-> [stats |-> "clmm_state_stats", flash |-> "clmm_state_flash",
               enhanced |-> "clmm_state_enhanced"],
     ammv4 |-> [stats |-> "ammv4_state_stats", flash |-> "ammv4_state_flash",
                enhanced |-> "none"]]

Holds(lock) == \E i \in 1..Len(held) : held[i] = lock

\* the PoolState the callback builds from a CLMM pool-state account event
PoolStateOfClmm(event, clock) ==
    WithStamp(Shape(event.pubkey, "RaydiumClmm", event.token_mint0, event.token_mint1,
                    0, 0, event.liquidity, event.sqrt_price_x64, 25), clock)

\* { let mut stats = event_counter.lock().unwrap(); stats.total_events += 1; } and the
\* dispatch of match_event!
CallbackBegin ==
    /\ At("callback", "idle") /\ stats.total_events < MaxEvents
    /\ ~Holds("event_counter")
    /\ stats' = [stats EXCEPT !.total_events = @ + 1]
    /\ \E handler \in {SwapAt.clmm.stats, SwapAt.ammv4.stats, StateAt.clmm.stats,
                       StateAt.ammv4.stats, "report"} : Goto("callback", handler)
    /\ UNCHANGED <<store_vars, opportunities, config, now, n_updates, observed, mutex,
                   new_opportunities, returned, dropped, oracle_vars, flash_vars, held,
                   orch, simulation_mode,
                   chain, ws_vars>>

\* let mut stats = event_counter.lock().unwrap(); stats.swap_events += 1;
SwapLockStats(protocol) ==
    /\ At("callback", SwapAt[protocol].stats) /\ ~Holds("event_counter")
    /\ held' = Append(held, "event_counter")
    /\ stats' = [stats EXCEPT !.swap_events = @ + 1]
    /\ Goto("callback", SwapAt[protocol].detector)
    /\ UNCHANGED <<store_vars, opportunities, config, now, n_updates, observed, mutex,
                   new_opportunities, returned, dropped, oracle_vars, flash_vars,
                   orch, simulation_mode,
                   chain, ws_vars>>

\* let mut detector = flash_detector.lock().unwrap();
\* if let Some(opp) = detector.analyze_*_swap_event(&e): without an opportunity the
\* closure returns and drops both guards
SwapLockDetector(protocol) ==
    /\ At("callback", SwapAt[protocol].detector) /\ ~Holds("flash_detector")
    /\ \E pool \in {"clmm", "clmm2", "amm"} :
          detected' = IF protocol = "clmm" THEN analyze_clmm_swap_event(pool)
                      ELSE analyze_ammv4_swap_event(pool)
    /\ held' = IF detected' = << >> THEN << >> ELSE Append(held, "flash_detector")
    /\ Goto("callback", IF detected' = << >> THEN "report" ELSE SwapAt[protocol].found)
    /\ UNCHANGED <<store_vars, opportunities, config, now, n_updates, observed, mutex,
                   new_opportunities, returned, dropped, oracle_vars, clmm_pool_states,
                   ammv4_pool_states, price_feed, flash_config, stats, orch,
                   simulation_mode,
                   chain, ws_vars>>

\* let mut stats = event_counter.lock().unwrap(); stats.opportunities_found += 1; inside
\* the if let.  std::sync::Mutex::lock on a mutex the thread holds does not return: it
\* deadlocks or panics, and a panic unwinds the callback and drops its guards
SwapRelockStats(protocol) ==
    /\ At("callback", SwapAt[protocol].found)
    /\ IF Holds("event_counter")
       THEN /\ \E outcome \in {"deadlocked", "panicked"} :
                  /\ Goto("callback", outcome)
                  /\ held' = IF outcome = "panicked" THEN << >> ELSE held
            /\ UNCHANGED stats
       ELSE /\ stats' = [stats EXCEPT !.opportunities_found = @ + 1]
            /\ held' = << >>
            /\ Goto("callback", "report")
    /\ UNCHANGED <<store_vars, opportunities, config, now, n_updates, observed, mutex,
                   new_opportunities, returned, dropped, oracle_vars, flash_vars,
                   orch, simulation_mode,
                   chain, ws_vars>>

\* let mut stats = event_counter.lock().unwrap(); stats.pool_updates += 1;
StateLockStats(protocol) ==
    /\ At("callback", StateAt[protocol].stats) /\ ~Holds("event_counter")
    /\ held' = Append(held, "event_counter")
    /\ stats' = [stats EXCEPT !.pool_updates = @ + 1]
    /\ Goto("callback", StateAt[protocol].flash)
    /\ UNCHANGED <<store_vars, opportunities, config, now, n_updates, observed, mutex,
                   new_opportunities, returned, dropped, oracle_vars, flash_vars,
                   orch, simulation_mode,
                   chain, ws_vars>>

\* flash_detector.lock().unwrap().update_clmm_pool_state(&e);
ClmmStateFlash ==
    /\ At("callback", StateAt.clmm.flash) /\ ~Holds("flash_detector")
    /\ \E event \in ClmmEvents :
          /\ update_clmm_pool_state(event)
          /\ observed' = [query |-> "pool_state_event", event |-> event]
    /\ detected' = << >>
    /\ Goto("callback", StateAt.clmm.enhanced)
    /\ UNCHANGED <<store_vars, opportunities, config, now, n_updates, mutex,
                   new_opportunities, returned, dropped, oracle_vars, ammv4_pool_states,
                   flash_config, client_vars>>

\* enhanced_detector.lock().unwrap().update_pool_state(pool_state); the closure returns
ClmmStateEnhanced ==
    /\ At("callback", StateAt.clmm.enhanced) /\ mutex = "free"
    /\ update_pool(PoolStateOfClmm(observed.event, now))
    /\ held' = << >>
    /\ observed' = << >>
    /\ Goto("callback", "report")
    /\ UNCHANGED <<opportunities, config, now, n_updates, mutex, new_opportunities,
                   returned, dropped, oracle_vars, flash_vars, stats, orch,
                   simulation_mode,
                   chain, ws_vars>>

\* flash_detector.lock().unwrap().update_ammv4_pool_state(&e); the closure returns
AmmV4StateFlash ==
    /\ At("callback", StateAt.ammv4.flash) /\ ~Holds("flash_detector")
    /\ \E event \in AmmV4Events : update_ammv4_pool_state(event)
    /\ detected' = << >>
    /\ held' = << >>
    /\ Goto("callback", "report")
    /\ UNCHANGED <<store_vars, opportunities, config, now, n_updates, observed, mutex,
                   new_opportunities, returned, dropped, oracle_vars, clmm_pool_states,
                   flash_config, stats, orch, simulation_mode,
                   chain, ws_vars>>

\* let mut last = last_report.lock().unwrap();
\* if last.elapsed() >= Duration::from_secs(30) { *last = Instant::now(); .. }
ReportLock ==
    /\ At("callback", "report") /\ ~Holds("last_report")
    /\ IF now - stats.last_report >= ReportSecs
       THEN /\ held' = Append(held, "last_report")
            /\ stats' = [stats EXCEPT !.last_report = now]
            /\ Goto("callback", "report_stats")
       ELSE /\ UNCHANGED <<held, stats>>
            /\ Goto("callback", "idle")
    /\ UNCHANGED <<store_vars, opportunities, config, now, n_updates, observed, mutex,
                   new_opportunities, returned, dropped, oracle_vars, flash_vars,
                   orch, simulation_mode,
                   chain, ws_vars>>

\* let stats = event_counter.lock().unwrap(); the report is printed and the callback
\* returns
ReportStats ==
    /\ At("callback", "report_stats") /\ ~Holds("event_counter")
    /\ held' = << >>
    /\ Goto("callback", "idle")
    /\ UNCHANGED <<store_vars, opportunities, config, now, n_updates, observed, mutex,
                   new_opportunities, returned, dropped, oracle_vars, flash_vars,
                   stats, orch, simulation_mode,
                   chain, ws_vars>>

NextCallback ==
    \/ CallbackBegin
    \/ \E protocol \in {"clmm", "ammv4"} :
          SwapLockStats(protocol) \/ SwapLockDetector(protocol) \/ SwapRelockStats(protocol)
          \/ StateLockStats(protocol)
    \/ ClmmStateFlash
    \/ ClmmStateEnhanced
    \/ AmmV4StateFlash
    \/ ReportLock
    \/ ReportStats
    \/ FlashTick

SpecCallback == Init /\ [][NextCallback]_vars

(***************************************************************************)
(* SpecClient: the reconnecting client of arbitrage_detector_example.rs.   *)
(* main calls run_arbitrage_detector_with_reconnect in a loop, which calls *)
(* run_arbitrage_detector in a loop; a standing subscription is watched by *)
(* the health monitor (every 10 s) and by the poll of the shutdown task    *)
(* (every 5 s).  The clock advances by one second, and a sleep, tick or    *)
(* poll that is due runs before the clock advances again.  The automatic   *)
(* stop after 1000 s lies beyond the horizon of the model.                 *)
(***************************************************************************)
MAX_RETRIES == 3

MainSleepSecs == 5

SubscribeTimeoutSecs == 30

HeartbeatTimeoutSecs == 60

HealthTickSecs == 10

PollSecs == 5

\* the horizon of the client's clock, in seconds after the start
ClientHorizon == 80

\* at most this many calls of run_arbitrage_detector fail in a row before the model stops
\* starting new ones
MaxRuns == 4

\* at most this many events reach the callback during one subscription
MaxClientEvents == 2

\* how long subscribe_events_immediate takes to answer, when it answers
SubscribeDelays == {0, 3}

BackoffSecs(retry_count) == 2 ^ retry_count

UnhealthyAtTimeout(time_since_last) == time_since_last >= HeartbeatTimeoutSecs

\* time_since_last > Duration::from_secs(60)
Unhealthy(time_since_last) == time_since_last > HeartbeatTimeoutSecs

\* run_arbitrage_detector returned Err: retry_count += 1; with MAX_RETRIES reached the
\* error goes to main, which sleeps 5 s and calls again; otherwise the loop sleeps
\* 2^retry_count seconds
RunFailed ==
    LET retry_count == orch.retry_count + 1
    IN  IF retry_count >= MAX_RETRIES
        THEN ClientAt("main_sleep", retry_count, orch.failed_runs + 1,
                      now + MainSleepSecs, orch.run)
        ELSE ClientAt("backoff", retry_count, orch.failed_runs + 1,
                      now + BackoffSecs(retry_count), orch.run)

\* run_arbitrage_detector up to the subscribe call: new locals, the client object is
\* created (or not: Err), the health monitor is spawned
RunStart ==
    /\ orch.position = "run"
    /\ orch.failed_runs < MaxRuns
    /\ \E created \in BOOLEAN :
          orch' = IF created
                  THEN ClientAt("subscribing", orch.retry_count, orch.failed_runs,
                                orch.wake, RunLocals(now))
                  ELSE RunFailed
    /\ UNCHANGED <<store_vars, opportunities, config, now, n_updates, observed,
                   task_vars, oracle_vars, flash_vars, held, stats, simulation_mode,
                   chain, ws_vars>>

\* the subscribe call answers: Ok(Ok(_)) spawns the shutdown task, whose first poll is
\* 5 s later; Ok(Err(e)) returns the error
SubscribeDone ==
    /\ orch.position = "subscribing"
    /\ now - orch.run.started \in SubscribeDelays
    /\ \E subscribed \in BOOLEAN :
          orch' = IF subscribed
                  THEN ClientAt("streaming", orch.retry_count, 0, orch.wake,
                                [orch.run EXCEPT !.next_poll = now + PollSecs])
                  ELSE RunFailed
    /\ UNCHANGED <<store_vars, opportunities, config, now, n_updates, observed,
                   task_vars, oracle_vars, flash_vars, held, stats, simulation_mode,
                   chain, ws_vars>>

\* Err(_) of tokio::time::timeout: "Subscription timeout"
SubscribeTimeout ==
    /\ orch.position = "subscribing"
    /\ now - orch.run.started = SubscribeTimeoutSecs
    /\ orch' = RunFailed
    /\ UNCHANGED <<store_vars, opportunities, config, now, n_updates, observed,
                   task_vars, oracle_vars, flash_vars, held, stats, simulation_mode,
                   chain, ws_vars>>

\* sleep(delay) of run_arbitrage_detector_with_reconnect is over: the loop calls again
BackoffDone ==
    /\ orch.position = "backoff"
    /\ now = orch.wake
    /\ orch' = [orch EXCEPT !.position = "run"]
    /\ UNCHANGED <<store_vars, opportunities, config, now, n_updates, observed,
                   task_vars, oracle_vars, flash_vars, held, stats, simulation_mode,
                   chain, ws_vars>>

\* sleep(5 s) of main is over: main calls run_arbitrage_detector_with_reconnect again,
\* whose retry_count starts at 0
MainRetry ==
    /\ orch.position = "main_sleep"
    /\ now = orch.wake
    /\ orch' = [orch EXCEPT !.position = "run", !.retry_count = 0]
    /\ UNCHANGED <<store_vars, opportunities, config, now, n_updates, observed,
                   task_vars, oracle_vars, flash_vars, held, stats, simulation_mode,
                   chain, ws_vars>>

\* the callback of create_arbitrage_callback_with_monitoring receives an event
ClientEvent ==
    /\ orch.position = "streaming"
    /\ orch.run.event_count < MaxClientEvents
    /\ orch' = [orch EXCEPT !.run.last_event_time = now,
                            !.run.event_count = orch.run.event_count + 1]
    /\ UNCHANGED <<store_vars, opportunities, config, now, n_updates, observed,
                   task_vars, oracle_vars, flash_vars, held, stats, simulation_mode,
                   chain, ws_vars>>

\* one round of the health monitor
HealthTick ==
    /\ orch.position \in {"subscribing", "streaming"}
    /\ now = orch.run.next_health_tick
    /\ orch' = [orch EXCEPT
                   !.run.is_connected =
                       IF Unhealthy(now - orch.run.last_event_time) THEN FALSE
                       ELSE orch.run.is_connected,
                   !.run.next_health_tick = now + HealthTickSecs]
    /\ UNCHANGED <<store_vars, opportunities, config, now, n_updates, observed,
                   task_vars, oracle_vars, flash_vars, held, stats, simulation_mode,
                   chain, ws_vars>>

\* one round of the poll of the shutdown task: with is_connected false the loop breaks,
\* grpc.stop() is called, run_arbitrage_detector returns Ok(()) and main breaks
ShutdownPoll ==
    /\ orch.position = "streaming"
    /\ now = orch.run.next_poll
    /\ orch' = IF ~orch.run.is_connected
               THEN [orch EXCEPT !.position = "done",
                                 !.run.stop_cause = "connection_lost"]
               ELSE [orch EXCEPT !.run.next_poll = now + PollSecs]
    /\ UNCHANGED <<store_vars, opportunities, config, now, n_updates, observed,
                   task_vars, oracle_vars, flash_vars, held, stats, simulation_mode,
                   chain, ws_vars>>

\* tokio::signal::ctrl_c() completes: grpc.stop(), Ok(()), main breaks
CtrlC ==
    /\ orch.position = "streaming"
    /\ orch' = [orch EXCEPT !.position = "done", !.run.stop_cause = "ctrl_c"]
    /\ UNCHANGED <<store_vars, opportunities, config, now, n_updates, observed,
                   task_vars, oracle_vars, flash_vars, held, stats, simulation_mode,
                   chain, ws_vars>>

\* one second passes, unless something of the client is due now
ClientTick ==
    /\ now < StartTime + ClientHorizon
    /\ orch.position # "run"
    /\ orch.position \in {"backoff", "main_sleep"} => now < orch.wake
    /\ orch.position = "subscribing" =>
           /\ now - orch.run.started < SubscribeTimeoutSecs
           /\ now < orch.run.next_health_tick
    /\ orch.position = "streaming" =>
           /\ now < orch.run.next_health_tick
           /\ now < orch.run.next_poll
    /\ now' = now + 1
    /\ UNCHANGED <<store_vars, opportunities, config, n_updates, observed,
                   task_vars, oracle_vars, flash_vars, client_vars>>

NextClient ==
    \/ RunStart
    \/ SubscribeDone
    \/ SubscribeTimeout
    \/ BackoffDone
    \/ MainRetry
    \/ ClientEvent
    \/ HealthTick
    \/ ShutdownPoll
    \/ CtrlC
    \/ ClientTick

SpecClient == Init /\ [][NextClient]_vars

(***************************************************************************)
(* SpecEval: the pure functions of the search applied to inputs drawn from *)
(* bounded sets: execution_probability on one pool, evaluate_trade_size on *)
(* two inputs side by side, and calculate_arbitrage on a pool pair.  Each   *)
(* behaviour applies one function to one input and records it in observed. *)
(***************************************************************************)
\* an AMM pool whose reserve on the a side is empty
DrainedPool == Shape("drained", "RaydiumAmmV4", SOL, USDC, 0, 400000, 200000000, NoneVal, 25)

\* a pool state with a trade recorded at the given time
Traded(pool, at) == [pool EXCEPT !.last_trade_timestamp = at]

EvalPools ==
    {WithStamp(shape, StartTime) :
        shape \in {AmmPool, CpmmPool, ClmmPool, DlmmPool, DrainedPool}}
    \cup {Traded(WithStamp(CpmmPool, StartTime), StartTime)}

EvalSizes == {2, 3, 100, 110, 210, 310}

\* the monitored pair of the detector, and one whose range is not a multiple of step_count
EvalPairs ==
    { monitored_pairs[1],
      [name |-> "SOL/USDC", token_a |-> SOL, token_b |-> USDC,
       min_trade_size |-> 110, max_trade_size |-> 325] }

\* evaluate_trade_size on one input, kept with its input
Evaluated(buy_pool, sell_pool, trade_size) ==
    [buy_pool |-> buy_pool, sell_pool |-> sell_pool, trade_size |-> trade_size,
     result |-> evaluate_trade_size(TokenPairKey(SOL, USDC), buy_pool, sell_pool, trade_size,
                                    TRUE, now)]

Probability ==
    /\ observed = << >>
    /\ \E pool \in EvalPools : \E trade_size \in EvalSizes : \E is_a_to_b \in BOOLEAN :
          observed' = [query |-> "execution_probability", pool |-> pool,
                       trade_size |-> trade_size, is_a_to_b |-> is_a_to_b,
                       impact |-> calculate_price_impact(pool, trade_size, is_a_to_b),
                       result |-> execution_probability(pool, trade_size, is_a_to_b, now)]
    /\ UNCHANGED <<store_vars, opportunities, config, now, n_updates, task_vars, oracle_vars,
                   flash_vars, client_vars>>

\* two evaluations side by side
Evaluate ==
    /\ observed = << >>
    /\ \E b1 \in EvalPools : \E s1 \in EvalPools : \E t1 \in EvalSizes :
       \E b2 \in EvalPools : \E s2 \in EvalPools : \E t2 \in EvalSizes :
          observed' = [query |-> "evaluate_trade_size",
                       first |-> Evaluated(b1, s1, t1), second |-> Evaluated(b2, s2, t2)]
    /\ UNCHANGED <<store_vars, opportunities, config, now, n_updates, task_vars, oracle_vars,
                   flash_vars, client_vars>>

Search ==
    /\ observed = << >>
    /\ \E pair_config \in EvalPairs : \E buy_pool \in EvalPools : \E sell_pool \in EvalPools :
          observed' = [query |-> "calculate_arbitrage", pair_config |-> pair_config,
                       buy_pool |-> buy_pool, sell_pool |-> sell_pool,
                       result |-> calculate_arbitrage(pair_config, buy_pool, sell_pool, now)]
    /\ UNCHANGED <<store_vars, opportunities, config, now, n_updates, task_vars, oracle_vars,
                   flash_vars, client_vars>>

NextEval == Probability \/ Evaluate \/ Search

SpecEval == Init /\ [][NextEval]_vars

(***************************************************************************)
(* Properties of the pool store (SpecStore)                                *)
(***************************************************************************)
IsConstantProduct(pool) == pool.dex_type \in {"RaydiumAmmV4", "RaydiumCpmm"}

IsConcentrated(pool) == pool.dex_type \in {"RaydiumClmm", "OrcaWhirlpool"}

\* a state no trade can be priced against: an empty constant-product reserve, or a
\* concentrated-liquidity pool without sqrt price or without liquidity
Untradable(pool) ==
    \/ IsConstantProduct(pool) /\ (pool.reserve_a = 0 \/ pool.reserve_b = 0)
    \/ IsConcentrated(pool) /\ (pool.sqrt_price_x64 = NoneVal \/ pool.sqrt_price_x64 = 0
                                \/ pool.liquidity = 0)

\* C1: an upsert of an untradable pool state is a silent no-op: the pool map and the
\* token-pair index after the call are what they were before it.
C1_UntradableUpsertIsNoOp ==
    [][\A pool_state \in PoolInputs(now) :
          (Untradable(pool_state) /\ UpdatePoolWith(pool_state))
              => UNCHANGED <<pools, token_pair_pools>>]_vars

NoDuplicates(seq) == \A i, j \in 1..Len(seq) : i # j => seq[i] # seq[j]

\* C9: the token-pair index changes only on a pool's first insertion: each pool address
\* appears at most once in the index entry of its pair, and get_pools_for_pair never
\* returns the same pool twice.
C9_IndexHoldsEachPoolOnce ==
    /\ \A pair_key \in DOMAIN token_pair_pools : NoDuplicates(token_pair_pools[pair_key])
    /\ \A ta, tb \in Tokens :
          LET found == get_pools_for_pair(pools, token_pair_pools, ta, tb, now)
          IN  NoDuplicates([i \in 1..Len(found) |-> found[i].pool_address])

NoStalePool == \A a \in DOMAIN pools : ~(now - pools[a].last_updated > max_pool_age_secs)

IndexWithinPools ==
    \A pair_key \in DOMAIN token_pair_pools :
        \A i \in 1..Len(token_pair_pools[pair_key]) :
            token_pair_pools[pair_key][i] \in DOMAIN pools

NoEmptyIndexEntry == \A pair_key \in DOMAIN token_pair_pools : token_pair_pools[pair_key] # <<>>

\* C10: after clean_stale_pools returns, no stored pool is older than max_pool_age_secs,
\* every address in the token-pair index is a key of the pool map, and no token pair
\* maps to an empty address list.
C10_CleanLeavesStoreConsistent ==
    [][CleanStale => (NoStalePool /\ IndexWithinPools /\ NoEmptyIndexEntry)']_vars

\* two pools of different pairs were stored, the clock passed the age limit of one of
\* them, and the clean removed that pool together with its whole index entry
C10_Witness ==
    /\ n_updates = 2
    /\ DOMAIN pools = {"dlmm"}
    /\ DOMAIN token_pair_pools = {TokenPairKey(SOL, USDT)}
    /\ now - pools["dlmm"].last_updated = max_pool_age_secs

(***************************************************************************)
(* Properties of the scan (Spec)                                           *)
(***************************************************************************)
Ranked == {opportunities[i] : i \in 1..Len(opportunities)}

\* C2: every opportunity admitted by a scan has sell_price > buy_price, net_profit > 0
\* and 0 < combined_execution_prob <= 1.
C2_AdmittedOpportunityIsSound ==
    \A opp \in Ranked :
        /\ RatLess(opp.buy_price, opp.sell_price)
        /\ opp.net_profit > 0
        /\ 0 < opp.combined_execution_prob
        /\ opp.combined_execution_prob <= 10000

\* price of token_a in token_b at the margin: reserve_out / reserve_in of the
\* constant-product formula
cpmm_spot_price(pool) == Rat(pool.reserve_b, pool.reserve_a)

\* (sqrt_price_x64 / 2^64)^2, with QBits fractional bits
calculate_clmm_price(pool) == Rat(pool.sqrt_price_x64 * pool.sqrt_price_x64, QOne * QOne)

HasPrice(pool) ==
    /\ ~Untradable(pool)
    /\ IsConstantProduct(pool) \/ IsConcentrated(pool)

MarginalPrice(pool) ==
    IF IsConstantProduct(pool) THEN cpmm_spot_price(pool) ELSE calculate_clmm_price(pool)

\* the only two fresh pools of the pair are distinct pools with the same marginal price
IdenticalPricePair(pair_config) ==
    LET found == get_pools_for_pair(pools, token_pair_pools, pair_config.token_a,
                                    pair_config.token_b, now)
    IN  /\ Len(found) = 2
        /\ found[1].pool_address # found[2].pool_address
        /\ HasPrice(found[1]) /\ HasPrice(found[2])
        /\ RatEq(MarginalPrice(found[1]), MarginalPrice(found[2]))

\* C3: identity scan: when the only two fresh pools of a token pair have identical
\* marginal price, the search for that pair emits no opportunity in either direction.
C3_IdentityScanEmitsNothing ==
    \A k \in 1..Len(monitored_pairs) :
        IdenticalPricePair(monitored_pairs[k])
            => find_opportunities_for_pair(monitored_pairs[k], pools, token_pair_pools,
                                           now, config) = <<>>

\* C4: every opportunity returned by scan_arbitrage_opportunities satisfies the three
\* configured floors at once: net_profit_pct >= min_net_profit_pct,
\* combined_execution_prob >= min_execution_prob and ev_score >= min_ev_score.
C4_AcceptanceGates ==
    \A opp \in Ranked :
        /\ RatLeq(config.min_net_profit_pct, opp.net_profit_pct)
        /\ opp.combined_execution_prob >= config.min_execution_prob
        /\ opp.ev_score >= min_ev_score

\* C8: fee closure: the recorded integers of every opportunity satisfy
\* net_profit = gross_profit - total_fees - gas - tip exactly, with
\* gross_profit = expected_output - expected_input and gas + tip = estimated_gas_lamports.
C8_FeeClosure ==
    \A opp \in Ranked :
        /\ opp.estimated_gas_lamports * AmountUnit = (base_gas_per_tx * 2) + jito_bundle_tip
        /\ opp.net_profit = (opp.expected_output - opp.expected_input)
                            - opp.total_fees - opp.estimated_gas_lamports

\* a scan has ranked an opportunity whose fees are not zero
C8_Witness ==
    \E opp \in Ranked : opp.total_fees > 0 /\ opp.expected_output > opp.expected_input

(***************************************************************************)
(* Properties of the ranked collection (SpecRank, SpecConc)                *)
(***************************************************************************)
SortedByEvScore(seq) == \A i \in 1..(Len(seq) - 1) : seq[i].ev_score >= seq[i + 1].ev_score

IsPrefix(short, long) ==
    /\ Len(short) <= Len(long)
    /\ \A i \in 1..Len(short) : short[i] = long[i]

\* C5: after any sequence of pool updates and scans, the collection read through
\* get_opportunities holds at most max_opportunities entries in non-increasing ev_score
\* order, and get_top_opportunities(n) returns exactly its first min(n, length) entries.
C5_RankedCollectionBoundedAndSorted ==
    /\ Len(opportunities) <= max_opportunities
    /\ SortedByEvScore(opportunities)
    /\ observed # << >> /\ observed.query = "get_opportunities" =>
          /\ Len(observed.result) <= max_opportunities
          /\ SortedByEvScore(observed.result)
    /\ observed # << >> /\ observed.query = "get_top_opportunities" =>
          /\ IsPrefix(observed.result, opportunities)
          /\ Len(observed.result) =
                (IF observed.n <= Len(opportunities) THEN observed.n ELSE Len(opportunities))

\* the search found more than max_opportunities candidates, the collection holds exactly
\* max_opportunities of them, and a reader took the first three
C5_Witness ==
    /\ Len(opportunities) = max_opportunities
    /\ Len(CollectPairs(1, pools, token_pair_pools, now, config)) > max_opportunities
    /\ observed # << >>
    /\ observed.query = "get_top_opportunities"
    /\ Len(observed.result) = 3
    /\ observed.result[1].ev_score > opportunities[max_opportunities].ev_score

\* C6: a rescan replaces the ranked collection all-or-nothing: with the scan task, the
\* callback and a reader interleaved, whatever a reader observes is the complete (sorted,
\* truncated) result of the last completed scan, and once a scan has stored its result
\* the collection equals exactly that result.
C6_RescanReplacesAtomically ==
    /\ At("reader", "unlock") =>
          /\ observed.result = returned
          /\ SortedByEvScore(observed.result)
          /\ Len(observed.result) <= max_opportunities
    /\ At("scanner", "return") => opportunities = new_opportunities
    /\ ~At("scanner", "return") => opportunities = returned

\* a rescan dropped an opportunity that was ranked before it, and a reader then read
\* the non-empty result of that rescan
C6_Witness ==
    /\ dropped
    /\ At("reader", "unlock")
    /\ observed.result # << >>
    /\ observed.result = returned

(***************************************************************************)
(* Properties of the oracle validator (SpecOracle)                         *)
(***************************************************************************)
OracleFor(opportunity) ==
    get_price(price_cache, opportunity.token_pair[1], opportunity.token_pair[2])

\* the gates that fail for a candidate, by their position in the order
\* 1 no-oracle, 2 stale-oracle, 3 wide-confidence, 4 price-deviation
FailingGates(opportunity) ==
    IF OracleFor(opportunity) = <<>> THEN {1}
    ELSE {gate \in 2..4 :
            \/ gate = 2 /\ ~is_fresh(OracleFor(opportunity)[1],
                                     oracle_config.max_staleness_secs, now)
            \/ gate = 3 /\ RatLess(oracle_config.max_oracle_confidence_pct,
                                   confidence_pct(OracleFor(opportunity)[1]))
            \/ gate = 4 /\ \E pool_price \in
                                {AveragePrice(opportunity.buy_price, opportunity.sell_price)}
                                \cup (IF oracle_config.require_both_pools
                                      THEN {opportunity.buy_price, opportunity.sell_price}
                                      ELSE {}) :
                              DeviationExceeds(pool_price,
                                               normalized_price(OracleFor(opportunity)[1]),
                                               oracle_config.max_price_deviation_pct)}

GateOfReason(reason) ==
    IF reason = "No Pyth oracle price available for this token pair" THEN 1
    ELSE IF reason = "Oracle price is stale" THEN 2
    ELSE IF reason = "Oracle confidence interval too high" THEN 3
    ELSE IF reason \in {"Pool price deviates too much from oracle",
                        "Buy pool price deviates too much",
                        "Sell pool price deviates too much"} THEN 4
    ELSE 0

\* C7: the validator applies its gates in the order no-oracle, stale-oracle,
\* wide-confidence, price-deviation: a candidate is accepted iff every gate passes, and a
\* rejected candidate carries the reason of the first gate that fails in that order.
C7_FirstFailingGateDecides ==
    verdict # << >> =>
        /\ verdict.is_valid <=> FailingGates(observed.opportunity) = {}
        /\ \A gate \in FailingGates(observed.opportunity) :
              (\A other \in FailingGates(observed.opportunity) : gate <= other)
                  => GateOfReason(verdict.reason) = gate

\* the example of the claim: average pool price 1.2 against oracle price 1.0 with 0.2 %
\* confidence, 5 s after the poll, under the balanced preset, rejected for its deviation
C7_Witness ==
    /\ oracle_config = balanced
    /\ verdict # << >>
    /\ observed.opportunity = Candidate(USDC, USDT, Rat(120, 100), Rat(120, 100))
    /\ ~verdict.is_valid
    /\ verdict.reason = "Pool price deviates too much from oracle"
    /\ RatEq(verdict.pool_price[1], Rat(12, 10))
    /\ RatEq(verdict.oracle_price[1], Rat(1, 1))
    /\ RatEq(verdict.confidence_pct[1], Rat(2, 10))
    /\ RatEq(verdict.deviation_pct[1], Rat(20, 1))
    /\ now - price_cache["usdc_usd"].last_updated = ShortWait

(***************************************************************************)
(* Properties of the pool store under skewed stamps (SpecSkew)             *)
(***************************************************************************)
\* the stored pools of a pair whose age, as an integer, is within the limit
WithinAge(pool, clock) == clock - pool.last_updated <= max_pool_age_secs

PoolsWithinAge(pool_map, index, token_a, token_b, clock) ==
    LET Kept(addr) == addr \in DOMAIN pool_map /\ WithinAge(pool_map[addr], clock)
    IN  IF TokenPairKey(token_a, token_b) \in DOMAIN index
        THEN SelectSeq(index[TokenPairKey(token_a, token_b)], Kept)
        ELSE << >>

\* C11: get_pools_for_pair returns exactly the stored pools of the pair whose age
\* now - last_updated is <= max_pool_age_secs, computed without wrap-around or panic: a
\* pool stamped later than the local clock counts as fresh and the call does not abort.
C11_AgeFilterDoesNotWrap ==
    (observed # << >> /\ observed.query = "get_pools_for_pair") =>
        /\ ~observed.panicked
        /\ Len(observed.result) =
              Len(PoolsWithinAge(pools, token_pair_pools,
                                 monitored_pairs[observed.pair].token_a,
                                 monitored_pairs[observed.pair].token_b, now))
        /\ \A i \in 1..Len(observed.result) :
              observed.result[i].pool_address =
                 PoolsWithinAge(pools, token_pair_pools,
                                monitored_pairs[observed.pair].token_a,
                                monitored_pairs[observed.pair].token_b, now)[i]

\* C12: for every pool address the stored last_updated never decreases over update_pool
\* calls: an update carrying an older stamp does not replace the stored stamp.
C12_LastUpdatedNeverDecreases ==
    [][\A addr \in DOMAIN pools :
          addr \in DOMAIN pools' => pools'[addr].last_updated >= pools[addr].last_updated]_vars

(***************************************************************************)
(* Properties of the reads over time (SpecConc)                            *)
(***************************************************************************)
\* C13: ranked opportunities expire: no opportunity whose age now - timestamp exceeds the
\* TTL of 30 s is returned by a read, even when no rescan has happened since it was ranked.
C13_ReadsReturnNoExpiredOpportunity ==
    [][Read => \A i \in 1..Len(observed'.result) :
                   now - observed'.result[i].timestamp <= 30]_vars

(***************************************************************************)
(* Properties of the swap-triggered search (SpecFlash)                     *)
(***************************************************************************)
\* the price points of the pools of a detected opportunity
PointsOf(opportunity) ==
    {p \in UNION {{price_feed[pair][i] : i \in 1..Len(price_feed[pair])} :
                  pair \in DOMAIN price_feed} :
        p.pool \in {opportunity.pool_a, opportunity.pool_b}}

\* C14: price points live 30 s: whenever the feed of a pair is written by a pool update or
\* read by a swap-triggered search, no entry older than 30 s is retained or used, so no
\* returned opportunity is computed from a price point aged 30 s or more.
C14_NoOpportunityFromOldPricePoint ==
    detected # << >> => \A p \in PointsOf(detected[1]) : now - p.timestamp < 30

\* C15: no opportunity emitted by either search has its buy pool and its sell pool on the
\* same protocol variant.
C15_DistinctProtocolVariants ==
    /\ \A opp \in Ranked : opp.buy_dex # opp.sell_dex
    /\ detected # << >> => detected[1].pool_a_protocol # detected[1].pool_b_protocol

(***************************************************************************)
(* Properties of the search of one scan (SpecRank)                         *)
(***************************************************************************)
\* C16: the result of one scan contains at most one opportunity for each ordered
\* (buy_pool, sell_pool) pair, whatever sequence of pool updates preceded the scan.
C16_OneOpportunityPerOrderedPoolPair ==
    \A i, j \in 1..Len(opportunities) :
        (opportunities[i].buy_pool = opportunities[j].buy_pool
         /\ opportunities[i].sell_pool = opportunities[j].sell_pool) => i = j

(***************************************************************************)
(* Properties of the pure functions of the search (SpecEval)               *)
(***************************************************************************)
\* the order of the grid search as documented: higher expected value, then higher net
\* profit, then smaller trade size
Preferred(d, c) ==
    \/ d.expected_value > c.expected_value
    \/ /\ d.expected_value = c.expected_value
       /\ \/ d.net_profit > c.net_profit
          \/ d.net_profit = c.net_profit /\ d.optimal_trade_size < c.optimal_trade_size

\* the Some(..) candidates among the evaluations of a grid
Evaluations(cands) == {c[2][1] : c \in {d \in cands : d[2] # << >>}}

\* the grid of the search reaches max_trade_size at its last step
GridEndsAtMax(pair_config) ==
    TradeSizeAt(pair_config, step_count) = pair_config.max_trade_size

\* no evaluation of the grid is preferred to the returned one, and one is returned when
\* an evaluation has a positive expected value
BestOfGrid(result, evaluations) ==
    /\ result # << >> => \A d \in evaluations : ~Preferred(d, result[1])
    /\ (\E d \in evaluations : d.expected_value > 0) => result # << >>

\* C17: for an ordered pool pair the grid search returns the candidate of maximal
\* expected value among the 21 sizes min + k * (max - min) / 20, k = 0..20, the last of
\* which is max_trade_size; ties in expected value go to the higher net profit, then to
\* the smaller trade size.
C17_GridSearchReturnsBestOfGrid ==
    (observed # << >> /\ observed.query = "calculate_arbitrage") =>
        /\ GridEndsAtMax(observed.pair_config)
        /\ BestOfGrid(observed.result,
                      Evaluations(GridCandidates(observed.pair_config, observed.buy_pool,
                                                 observed.sell_pool, now)))

\* both evaluations of an Evaluate step returned Some(..)
BothEvaluated ==
    /\ observed # << >>
    /\ observed.query = "evaluate_trade_size"
    /\ observed.first.result # << >>
    /\ observed.second.result # << >>

\* C18: for fixed buy and sell pool states and a fixed clock, a trade size s1 <= s2 has
\* combined_execution_prob at s1 >= combined_execution_prob at s2, and the execution
\* probability of the buy pool at s1 is >= the one at s2.
C18_ProbabilityMonotoneInSize ==
    (/\ BothEvaluated
     /\ observed.first.buy_pool = observed.second.buy_pool
     /\ observed.first.sell_pool = observed.second.sell_pool
     /\ observed.first.trade_size <= observed.second.trade_size) =>
        /\ observed.first.result[1].combined_execution_prob
              >= observed.second.result[1].combined_execution_prob
        /\ observed.first.result[1].buy_execution_prob
              >= observed.second.result[1].buy_execution_prob

\* the reserve on the input side of a trade
InputReserve(pool, is_a_to_b) == IF is_a_to_b THEN pool.reserve_a ELSE pool.reserve_b

\* C19: execution_probability returns a value in [0, 1] (0..100 in 1/100), and exactly 0
\* when the reserve of the pool on the input side of the trade is zero.
C19_ProbabilityClampedAndZeroOnEmptyReserve ==
    (observed # << >> /\ observed.query = "execution_probability") =>
        /\ observed.result \in 0..100
        /\ InputReserve(observed.pool, observed.is_a_to_b) = 0 => observed.result = 0

\* C20: ev_score is monotone: of two evaluated candidates with the same combined
\* probability and trade size the one with the larger net_profit has an ev_score at least
\* as large, and of two with the same net_profit the one with the larger combined
\* probability has an ev_score at least as large.
C20_EvScoreMonotone ==
    BothEvaluated =>
        /\ (/\ observed.first.result[1].combined_execution_prob
                  = observed.second.result[1].combined_execution_prob
            /\ observed.first.trade_size = observed.second.trade_size
            /\ observed.first.result[1].net_profit > observed.second.result[1].net_profit)
              => observed.first.result[1].ev_score >= observed.second.result[1].ev_score
        /\ (/\ observed.first.result[1].net_profit = observed.second.result[1].net_profit
            /\ observed.first.result[1].combined_execution_prob
                  > observed.second.result[1].combined_execution_prob)
              => observed.first.result[1].ev_score >= observed.second.result[1].ev_score

(***************************************************************************)
(* Further properties of the oracle validator (SpecOracle)                 *)
(***************************************************************************)
\* C21: the staleness gate passes exactly when now - last_update <= max_staleness: a
\* cached oracle record whose age equals max_staleness_secs is not rejected as stale, and
\* an older one is.
C21_StalenessGateIsInclusive ==
    (verdict # << >> /\ OracleFor(observed.opportunity) # << >>) =>
        (verdict.reason = "Oracle price is stale"
            <=> now - OracleFor(observed.opportunity)[1].last_updated
                    > oracle_config.max_staleness_secs)

\* the verdicts of a batch stand one per input, in input order
OnePerInputInOrder(batch, result) ==
    /\ Len(result) = Len(batch)
    /\ \A i \in 1..Len(batch) : result[i][1] = batch[i]

C23_FeedPricesFiniteAndPositive ==
    \A pair \in DOMAIN price_feed :
        \A i \in 1..Len(price_feed[pair]) :
            price_feed[pair][i].price.d > 0 /\ price_feed[pair][i].price.n > 0

\* both protocols are in the feed, the AMM entry from a state whose pc_in / coin_out
\* term is infinite
C23_Witness ==
    /\ "amm" \in DOMAIN ammv4_pool_states
    /\ ammv4_pool_states["amm"].swap_pc_in > 0
    /\ ammv4_pool_states["amm"].swap_coin_out = 0
    /\ \E pair \in DOMAIN price_feed :
          /\ \E i \in 1..Len(price_feed[pair]) : price_feed[pair][i].pool = "amm"
          /\ \E i \in 1..Len(price_feed[pair]) : price_feed[pair][i].protocol = "RaydiumClmm"

(***************************************************************************)
(* Properties of the event callback (SpecCallback)                         *)
(***************************************************************************)
\* the mutex the callback is about to lock at a position
WaitsFor(position) ==
    IF position \in {SwapAt.clmm.stats, SwapAt.ammv4.stats, StateAt.clmm.stats,
                     StateAt.ammv4.stats, SwapAt.clmm.found, SwapAt.ammv4.found,
                     "report_stats"}
    THEN "event_counter"
    ELSE IF position \in {SwapAt.clmm.detector, SwapAt.ammv4.detector,
                          StateAt.clmm.flash, StateAt.ammv4.flash}
    THEN "flash_detector"
    ELSE IF position = StateAt.clmm.enhanced THEN "enhanced_detector"
    ELSE IF position = "report" THEN "last_report"
    ELSE "none"

\* one global order of acquisition
LockRank(lock) ==
    IF lock = "last_report" THEN 1
    ELSE IF lock = "event_counter" THEN 2
    ELSE IF lock = "flash_detector" THEN 3
    ELSE IF lock = "enhanced_detector" THEN 4
    ELSE 5

\* C24: the event callback never blocks the event loop: it never locks a mutex it
\* already holds, its nested acquisitions follow one global order, and every lock it
\* takes is released, so that the callback returns and the next event is processed.
C24_CallbackNeverBlocks ==
    /\ \A i \in 1..Len(held) :
          /\ held[i] # WaitsFor(pc["callback"])
          /\ LockRank(held[i]) < LockRank(WaitsFor(pc["callback"]))
    /\ pc["callback"] \notin {"deadlocked", "panicked"}
    /\ pc["callback"] = "idle" => held = << >>

(***************************************************************************)
(* Properties of the reconnecting client (SpecClient)                      *)
(***************************************************************************)
\* C25: a transport error is propagated only after the maximum number of consecutive
\* failed attempts, and it is propagated then: the client makes at most MAX_RETRIES
\* attempts in a row that fail and then terminates with the error; it never starts a
\* further attempt after MAX_RETRIES consecutive failures.
C25_ErrorEndsClientAfterMaxRetries ==
    /\ orch.failed_runs <= MAX_RETRIES
    /\ orch.failed_runs = MAX_RETRIES => orch.position \notin {"run", "main_sleep"}

\* C26: after the transport closed and the connection was found lost, the client
\* reconnects instead of ending, and the event counter of the subscription is kept: the
\* client ends only on Ctrl+C, and no step of the client lowers event_count.
C26_ReconnectKeepsState ==
    [][/\ orch'.position = "done" => orch'.run.stop_cause = "ctrl_c"
       /\ orch'.run.event_count >= orch.run.event_count]_vars

\* C27: heartbeat.  A subscription silent for more than 60 s is marked unhealthy within
\* one health tick (once the silence exceeds 70 s the flag is down) and stopped within
\* one further poll (once it exceeds 75 s the subscription no longer stands); and the
\* flag goes down only at a moment when the last event is more than 60 s old.
C27_HeartbeatMarksAndStopsSilentStream ==
    [][/\ (orch.position = "streaming"
              /\ now - orch.run.last_event_time > HeartbeatTimeoutSecs + HealthTickSecs)
           => ~orch.run.is_connected
       /\ now - orch.run.last_event_time
              > HeartbeatTimeoutSecs + HealthTickSecs + PollSecs
           => orch.position # "streaming"
       /\ (orch.run.is_connected /\ ~orch'.run.is_connected
              /\ orch'.run.started = orch.run.started)
           => now - orch.run.last_event_time > HeartbeatTimeoutSecs]_vars

\* a subscription that received an event was silent for more than 60 s afterwards and
\* was stopped by the poll of the shutdown task
C27_Witness ==
    /\ orch.position = "done"
    /\ orch.run.stop_cause = "connection_lost"
    /\ orch.run.event_count > 0
    /\ ~orch.run.is_connected
    /\ now - orch.run.last_event_time > HeartbeatTimeoutSecs

(***************************************************************************)
(* Properties of the loan sizing (SpecLoan, SpecSizing)                    *)
(***************************************************************************)
\* C28: every opportunity the OpportunityDetector emits has
\* loan_amount <= max_loan_amount, whatever max_loan_amount it was built with.
C28_LoanWithinMaxLoanAmount ==
    detected # << >> => detected[1].loan_amount <= flash_config.max_loan_amount

\* C29: with a loan cap of 100 SOL, a buy pool of 100 SOL and a sell pool of 200 SOL,
\* calculate_optimal_loan_size returns a loan between 6 and 7 SOL: a smaller liquidity
\* of 100 SOL is in the highest tier, where the loan is one fifteenth of it.
C29_HundredSolIsHighestTier ==
    (/\ observed # << >>
     /\ observed.query = "calculate_optimal_loan_size"
     /\ flash_config.max_loan_amount = Sol(100)
     /\ observed.buy_pool.liquidity = Sol(100)
     /\ observed.sell_pool.liquidity = Sol(200))
        => (observed.result >= Sol(6) /\ observed.result <= Sol(7))

\* C39: where neither the floor nor the max-loan cap applies, the loan returned by
\* calculate_optimal_loan_size is at most the tier's percentage of the smaller pool's
\* liquidity (15 % above 100 SOL, 10 % above 50 SOL, 5 % above 20 SOL, 2 % otherwise),
\* hence at most 15 % of it in every tier.
C39_LoanIsTierPercentageOfLiquidity ==
    (/\ observed # << >>
     /\ observed.query = "calculate_optimal_loan_size"
     /\ observed.result < flash_config.max_loan_amount
     /\ observed.result > 1)
        => LET min_liquidity == Min(observed.buy_pool.liquidity,
                                    observed.sell_pool.liquidity)
           IN  /\ observed.result * 100 <= 15 * min_liquidity
               /\ observed.result * 100 <= LoanPercentage(min_liquidity) * min_liquidity

(***************************************************************************)
(* Properties of the transaction builder (SpecBuilder)                     *)
(***************************************************************************)
\* C30: while simulation mode is enabled (the builder was made by new_simulation_mode,
\* or set_simulation_mode(true) was the last setting), execute_flash_loan builds, signs
\* and submits nothing and returns an error; a transaction is submitted only with
\* simulation mode disabled.
C30_SimulationModeNeverSubmits ==
    [][(observed' # << >> /\ observed' # observed) =>
          /\ observed'.mode = simulation_mode
          /\ simulation_mode =>
                /\ ~observed'.outcome.built
                /\ ~observed'.outcome.signed
                /\ ~observed'.outcome.submitted
                /\ observed'.outcome.result = "Err"
          /\ observed'.outcome.submitted => ~simulation_mode]_vars

\* execute_flash_loan was called in simulation mode, and the mode is still on
C30_Witness ==
    /\ observed # << >>
    /\ observed.mode
    /\ observed.outcome.simulated
    /\ observed.outcome.loan_amount > 0
    /\ simulation_mode

(***************************************************************************)
(* Properties of the lending program (SpecLending)                         *)
(***************************************************************************)
\* the last operation was a FlashLoan whose receiver program returned Ok
ReceiverReturned ==
    /\ observed # << >>
    /\ observed.query = "flash_loan"
    /\ observed.outcome.final_balance # << >>

\* the source balance before the loan plus the total fee, as an unbounded integer
ExpectedBalance ==
    observed.before.balances["supply"]
        + calculate_flash_loan_fees(observed.before.reserve, observed.amount)[1].total_fee

\* C31 as stated: a FlashLoan succeeds only if after the receiver returned the source
\* balance is at least its balance before the loan plus the total fee; otherwise it
\* fails with FlashLoanNotRepaid and the stored Reserve is unchanged.
C31_FlashLoanRepaidOrNotRepaidError ==
    ReceiverReturned =>
        /\ observed.outcome.result = "Ok"
              => observed.outcome.final_balance[1] >= ExpectedBalance
        /\ observed.outcome.final_balance[1] < ExpectedBalance
              => /\ observed.outcome.result = "FlashLoanNotRepaid"
                 /\ observed.outcome.reserve = observed.before.reserve
                 /\ chain.reserve = observed.before.reserve

\* C31 amended: a FlashLoan succeeds only if after the receiver returned the source
\* balance is at least its balance before the loan plus the total fee; otherwise it
\* fails and the stored Reserve is unchanged, with FlashLoanNotRepaid when the balance
\* before plus the fee fits u64 and with MathOverflow when it does not.
C31_FlashLoanRepaidOrFails ==
    ReceiverReturned =>
        /\ observed.outcome.result = "Ok"
              => observed.outcome.final_balance[1] >= ExpectedBalance
        /\ observed.outcome.final_balance[1] < ExpectedBalance
              => /\ observed.outcome.result =
                        (IF ExpectedBalance > WordMax THEN "MathOverflow"
                         ELSE "FlashLoanNotRepaid")
                 /\ observed.outcome.reserve = observed.before.reserve
                 /\ chain.reserve = observed.before.reserve

\* the example receiver repaid the loan with its own fee of 9 bps to a reserve that
\* asks for 30 bps, and the instruction failed with FlashLoanNotRepaid
C31_Witness ==
    /\ ReceiverReturned
    /\ observed.outcome.final_balance[1] > observed.before.balances["supply"]
    /\ observed.outcome.final_balance[1] < ExpectedBalance
    /\ observed.outcome.result = "FlashLoanNotRepaid"

\* C32: the host fee receiver is optional: a FlashLoan built without one sends no host
\* fee to any account, and hands every additional account to the receiver program, in
\* order, after the destination account.
C32_NoHostFeeReceiverNoHostFee ==
    (/\ observed # << >>
     /\ observed.query = "flash_loan"
     /\ observed.host_fee_receiver = << >>
     /\ observed.outcome.receiver_accounts # << >>)
        => /\ observed.outcome.host_fee_paid = << >>
           /\ observed.outcome.receiver_accounts
                  = <<"borrower">> \o observed.receiver_program_accounts

(***************************************************************************)
(* SpecDegenerate: the detector of Spec, fed through update_pool_state     *)
(* with pool states that carry no usable price next to ordinary ones.      *)
(***************************************************************************)
\* a Raydium CLMM state with liquidity but without sqrt price
UnpricedClmmPool == Shape("clmm", "RaydiumClmm", SOL, USDC, 0, 0, 500000000, NoneVal, 25)

\* the same with a sqrt price of zero
ZeroPriceClmmPool == Shape("clmm", "RaydiumClmm", SOL, USDC, 0, 0, 500000000, 0, 25)

DegenerateShapes ==
    { AmmPool, CpmmPool, UnpricedClmmPool, ZeroPriceClmmPool,
      Shape("clmm", "RaydiumClmm", SOL, USDC, 0, 0, 0, 2 * QOne, 25),
      Shape("cpmm", "RaydiumCpmm", SOL, USDC, 0, 400000, 1, NoneVal, 25) }

\* EnhancedArbitrageDetector::update_pool_state with one of these states
UpdateDegeneratePool ==
    \E shape \in DegenerateShapes : UpdatePoolWith(WithStamp(shape, now))

NextDegenerate == UpdateDegeneratePool \/ Scan \/ Tick

SpecDegenerate == Init /\ [][NextDegenerate]_vars

\* C33: no opportunity emitted by a scan has as its buy or sell pool a pool that is
\* untradable at the time of the scan (a constant-product pool with a zero reserve, or a
\* concentrated-liquidity pool with zero or absent sqrt price or zero liquidity).
C33_ScanEmitsNoUntradablePool ==
    [][Scan => \A i \in 1..Len(opportunities') :
                  /\ ~Untradable(pools[opportunities'[i].buy_pool])
                  /\ ~Untradable(pools[opportunities'[i].sell_pool])]_vars

(***************************************************************************)
(* SpecRemint: the LiquidityMonitor of SpecStore, where the address "amm"  *)
(* is reported once as a SOL/USDC pool and once as a SOL/USDT pool.        *)
(***************************************************************************)
RemintedAmmPool == Shape("amm", "RaydiumAmmV4", SOL, USDT, 100000, 400000, 1, NoneVal, 25)

RemintShapes == {AmmPool, RemintedAmmPool, CpmmPool, DlmmPool}

\* LiquidityMonitor::update_pool with one of these states
UpdateRemintedPool ==
    \E shape \in RemintShapes : UpdatePoolWith(WithStamp(shape, now))

NextRemint == UpdateRemintedPool \/ CleanStale \/ GetPools \/ Tick

SpecRemint == Init /\ [][NextRemint]_vars

\* C34: after any sequence of update_pool and clean_stale_pools calls, every pool that
\* get_pools_for_pair(a, b) returns has {token_a, token_b} = {a, b}.
C34_PoolsOfPairTradeThePair ==
    (/\ observed # << >>
     /\ observed.query = "get_pools_for_pair"
     /\ ~observed.panicked)
        => \A i \in 1..Len(observed.result) :
              {observed.result[i].token_a, observed.result[i].token_b}
                  = {monitored_pairs[observed.pair].token_a,
                     monitored_pairs[observed.pair].token_b}

(***************************************************************************)
(* Further properties of the oracle validator (SpecOracle)                 *)
(***************************************************************************)
\* a feed is configured for the two tokens, in either order, and its price is cached
FeedCachedFor(token_pair) ==
    \E account \in DOMAIN price_feeds :
        /\ {price_feeds[account].base_token, price_feeds[account].quote_token}
               = {token_pair[1], token_pair[2]}
        /\ account \in DOMAIN price_cache

\* C35: if a feed is configured and has a cached price for a token pair,
\* validate_opportunity never rejects an opportunity on that pair for lack of an oracle
\* price, whichever token the normalized TokenPair takes as base.
C35_CachedFeedIsFound ==
    (/\ observed # << >>
     /\ observed.query = "validate_opportunity"
     /\ FeedCachedFor(observed.opportunity.token_pair))
        => verdict.reason # "No Pyth oracle price available for this token pair"

(***************************************************************************)
(* SpecPublish: the monitor and validator of SpecOracle, where every reply *)
(* of the price account carries the time the price was published and a     *)
(* polling round may fail.                                                 *)
(***************************************************************************)
\* max_staleness_secs of the feeds of presets
FeedMaxStalenessSecs == 60

\* how long before the fetch the fetched price was published
PublishAges == {0, 50, 70}

\* Price of pyth-sdk: the reply and its publish_time
Published(reply, publish_time) ==
    [price |-> reply.price, confidence |-> reply.confidence, expo |-> reply.expo,
     publish_time |-> publish_time]

\* PriceFeed::get_price_no_older_than(current_time, age) of pyth-sdk: None when the price
\* was published more than age seconds away from current_time
get_price_no_older_than(price, current_time, age) ==
    IF Abs(price.publish_time - current_time) > age THEN << >> ELSE <<price>>

\* update_price_feed: fetched is the result of fetch_price, Err as the empty tuple; the
\* cache is written only when the price is recent enough
update_price_feed(cache, account, fetched, clock) ==
    IF fetched = << >> THEN cache
    ELSE IF get_price_no_older_than(fetched[1], clock, FeedMaxStalenessSecs) = << >>
    THEN cache
    ELSE (account :> [symbol |-> price_feeds[account].symbol,
                      price |-> fetched[1].price,
                      confidence |-> fetched[1].confidence, expo |-> fetched[1].expo,
                      publish_time |-> fetched[1].publish_time,
                      last_updated |-> clock]) @@ cache

\* one task of a round of start_monitoring, for the USDC/USD price account
UpdatePriceFeed ==
    /\ n_updates < MaxUpdates
    /\ \E fetched \in {<< >>} \cup {<<Published(OracleReply(1000, 2), now - age)>> :
                                       age \in PublishAges} :
          price_cache' = update_price_feed(price_cache, "usdc_usd", fetched, now)
    /\ n_updates' = n_updates + 1
    /\ verdict' = << >>
    /\ observed' = << >>
    /\ UNCHANGED <<store_vars, opportunities, config, now, task_vars, oracle_config, flash_vars,
                   client_vars>>

NextPublish == UpdatePriceFeed \/ OracleTick \/ Validate

SpecPublish == InitOracle /\ [][NextPublish]_vars

\* C36: whenever an opportunity is accepted, the oracle price it was checked against was
\* published no more than max_staleness_secs before the validation time.
C36_AcceptedAgainstRecentlyPublishedPrice ==
    (/\ observed # << >>
     /\ observed.query = "validate_opportunity"
     /\ verdict # << >>
     /\ verdict.is_valid)
        => now - get_price(price_cache, observed.opportunity.token_pair[1],
                           observed.opportunity.token_pair[2])[1].publish_time
               <= oracle_config.max_staleness_secs

\* the preset next in the order conservative, balanced, aggressive
NextLooserPreset(cfg) == IF cfg = conservative THEN balanced ELSE aggressive

\* C37: the presets are ordered by strictness: an opportunity accepted against an oracle
\* record under the conservative preset is accepted under the balanced preset, and one
\* accepted under the balanced preset is accepted under the aggressive preset.
C37_PresetsOrderedByStrictness ==
    (/\ observed # << >>
     /\ observed.query = "validate_opportunity"
     /\ verdict # << >>
     /\ verdict.is_valid)
        => validate_opportunity(observed.opportunity, price_cache,
                                NextLooserPreset(oracle_config), now).is_valid

\* an acceptance under the balanced preset of an opportunity the conservative preset
\* rejects, the aggressive preset accepting it as well
C37_Witness ==
    /\ observed # << >>
    /\ observed.query = "validate_opportunity"
    /\ verdict # << >>
    /\ verdict.is_valid
    /\ oracle_config = balanced
    /\ ~validate_opportunity(observed.opportunity, price_cache, conservative, now).is_valid
    /\ validate_opportunity(observed.opportunity, price_cache, aggressive, now).is_valid

(***************************************************************************)
(* WsPoolStreamClient (market-streaming/src/ws_client.rs).  Account data   *)
(* is a record naming the layout its bytes have; the base64 text of a      *)
(* notification is that record wrapped, or text that is not base64.        *)
(***************************************************************************)
PoolPubkeys == {"pool_a", "pool_b", "pool_c"}

Contains(seq, x) == \E i \in 1..Len(seq) : seq[i] = x

\* add_pool: push unless the list contains the pubkey
add_pool(pubkeys, pubkey) == IF Contains(pubkeys, pubkey) THEN pubkeys ELSE Append(pubkeys, pubkey)

AccountData(layout, sqrt_price) == [layout |-> layout, sqrt_price |-> sqrt_price]

Base64(data) == <<"base64", data>>

\* base64::decode: Ok(bytes) as a 1-tuple, Err as the empty tuple
decode(data_str) == IF data_str[1] = "base64" THEN <<data_str[2]>> ELSE << >>

\* T::try_from_slice(data) succeeds when the bytes have the layout of T
try_from_slice(layout, data) == IF data.layout = layout THEN <<data>> ELSE << >>

\* Option<DexPoolState>: Raydium CLMM, then Orca Whirlpool, then Meteora DLMM
try_deserialize_pool(data) ==
    IF try_from_slice("RaydiumClmm", data) # << >>
    THEN <<[protocol |-> "RaydiumClmm", state |-> try_from_slice("RaydiumClmm", data)[1]]>>
    ELSE IF try_from_slice("OrcaWhirlpool", data) # << >>
    THEN <<[protocol |-> "OrcaWhirlpool", state |-> try_from_slice("OrcaWhirlpool", data)[1]]>>
    ELSE IF try_from_slice("MeteoraDlmm", data) # << >>
    THEN <<[protocol |-> "MeteoraDlmm", state |-> try_from_slice("MeteoraDlmm", data)[1]]>>
    ELSE << >>

\* PoolStateCache::update(pubkey, state, slot): the cache entry of pubkey becomes the
\* state and its slot
CacheUpdate(cache, pubkey, pool_state, slot) ==
    (pubkey :> [state |-> pool_state, slot |-> slot]) @@ cache

\* for pubkey in &self.config.pool_pubkeys { if let Some(pool_state) = ... }
RECURSIVE UpdateConfiguredPools(_, _, _, _)
UpdateConfiguredPools(cache, pubkeys, data, slot) ==
    IF pubkeys = << >> THEN cache
    ELSE UpdateConfiguredPools(
             IF try_deserialize_pool(data) # << >>
             THEN CacheUpdate(cache, Head(pubkeys), try_deserialize_pool(data)[1], slot)
             ELSE cache,
             Tail(pubkeys), data, slot)

\* params of an accountNotification: result.value.data[0] and result.context.slot, each
\* present or not; an absent slot is 0
process_account_update(cache, pubkeys, params) ==
    IF params.data = << >> THEN cache
    ELSE IF decode(params.data[1]) = << >> THEN cache
    ELSE UpdateConfiguredPools(cache, pubkeys, decode(params.data[1])[1],
                               IF params.slot = << >> THEN 0 ELSE params.slot[1])

process_message(cache, pubkeys, msg) ==
    IF msg.method = "accountNotification"
    THEN process_account_update(cache, pubkeys, msg.params)
    ELSE cache

(***************************************************************************)
(* SpecWs: a WsPoolStreamClient given its pools by add_pool, then started, *)
(* then reading the messages of its subscriptions.                         *)
(***************************************************************************)
NotifiedSlots == {<< >>, <<7>>, <<8>>}

NotifiedData ==
    { <<Base64(AccountData("RaydiumClmm", 16))>>, <<Base64(AccountData("RaydiumClmm", 32))>>,
      <<Base64(AccountData("OrcaWhirlpool", 16))>>, <<Base64(AccountData("TokenAccount", 0))>>,
      <<<<"text", "not base64">>>>, << >> }

WsMessages ==
    { [method |-> "accountNotification", params |-> [data |-> data, slot |-> slot]] :
          data \in NotifiedData, slot \in NotifiedSlots }
    \cup { [method |-> "logsNotification", params |-> [data |-> << >>, slot |-> <<7>>]] }

AddPool ==
    /\ subscription = << >>
    /\ \E pubkey \in PoolPubkeys : pool_pubkeys' = add_pool(pool_pubkeys, pubkey)
    /\ observed' = << >>
    /\ UNCHANGED <<store_vars, opportunities, config, now, n_updates, task_vars, oracle_vars,
                   flash_vars, held, stats, orch, simulation_mode, chain, state_cache,
                   subscription>>

\* start(): accountSubscribe is sent for pool_addresses[0] alone
StartWs ==
    /\ subscription = << >>
    /\ pool_pubkeys # << >>
    /\ subscription' = <<pool_pubkeys[1]>>
    /\ observed' = << >>
    /\ UNCHANGED <<store_vars, opportunities, config, now, n_updates, task_vars, oracle_vars,
                   flash_vars, held, stats, orch, simulation_mode, chain, state_cache,
                   pool_pubkeys>>

\* Ok(Message::Text(text)) => self.process_message(&text): account notifications come
\* from the one subscribed account
WsMessage ==
    /\ subscription # << >>
    /\ \E msg \in WsMessages :
          /\ state_cache' = process_message(state_cache, pool_pubkeys, msg)
          /\ observed' = [query |-> "process_message", message |-> msg,
                          account |-> subscription[1], before |-> state_cache]
    /\ UNCHANGED <<store_vars, opportunities, config, now, n_updates, task_vars, oracle_vars,
                   flash_vars, held, stats, orch, simulation_mode, chain, pool_pubkeys,
                   subscription>>

NextWs == AddPool \/ StartWs \/ WsMessage

SpecWs == Init /\ [][NextWs]_vars

\* the cache entry of a pool, absent as the empty tuple
CachedState(cache, pubkey) == IF pubkey \in DOMAIN cache THEN <<cache[pubkey]>> ELSE << >>

\* C38: an account-update notification changes the cached state of the one pool whose
\* account produced it: the cached states of all other configured pools are what they
\* were before the notification.
C38_NotificationChangesOnePool ==
    (/\ observed # << >>
     /\ observed.query = "process_message"
     /\ observed.message.method = "accountNotification")
        => \A pubkey \in PoolPubkeys \ {observed.account} :
              CachedState(state_cache, pubkey) = CachedState(observed.before, pubkey)
====
